---- MODULE Spec2Model ----
(***************************************************************************)
(* Streaming-conversation pipeline of the webapp:                          *)
(*   - the server action of routes/api.v1.conversation._index.tsx          *)
(*     (one turn: credential rotation, tool gateway client, tool listing,  *)
(*     history fetch, user Turn append, title job, streamText step loop,   *)
(*     onFinish append of the agent Turn);                                 *)
(*   - the SingleConversation client component of the same file            *)
(*     (useChat status, auto-start, 30 s watchdog, bounded auto-recovery); *)
(*   - the model router and the embedding retries of lib/model.server.ts;  *)
(*   - the invite action of routes/api.v1.teams.$teamId.members.tsx.       *)
(* Strings are sequences of one-character strings so that stripHtml is     *)
(* computed the way the regular expressions compute it.                    *)
(***************************************************************************)
EXTENDS Integers, Sequences, FiniteSets, TLC

\* ---------------------------------------------------------------- bounds
MaxTurns == 1          \* requests sent to the route by API callers (Spec)
MaxSends == 3          \* messages one browser session sends (SpecSession)
MaxFinishCalls == 2    \* completion callbacks per turn (SpecRefire)
MaxRacers == 2         \* requests of one user that may overlap (SpecRace)
MaxRetryOption == 4    \* largest maxRetries option passed (SpecEmbed)
MaxInvites == 2        \* invite requests that may overlap (SpecTeams)
MaxTeams == 3          \* teams, the created ones included (SpecTeams)
MaxOverlap == 2        \* first requests of a session that may overlap
MaxDeletes == 2        \* requests to delete the conversation (SpecRefire)

\* ------------------------------------------------------ program constants
StepBudget == 10       \* stepCountIs(10)
MaxRetries == 2        \* retryCount < 2
StatusTimeout == 30000 \* setTimeout(..., 30000), in ms
DefaultMaxRetries == 3 \* maxRetries = 3

TurnIds == 1..(IF MaxTurns > MaxSends THEN MaxTurns ELSE MaxSends)

\* ------------------------------------------------------------------ text
\* A text is a sequence of one-character strings.

\* String.prototype.trim() removes the WhiteSpace and LineTerminator code
\* points. A code point that has no escape in a string here is written by its
\* name ("U+00A0" is the one character NO-BREAK SPACE).
IsSpace(c) ==
  c \in {" ", "\t", "\n", "\r", "\f", "U+000B", "U+00A0", "U+FEFF",
         "U+1680", "U+2000", "U+2001", "U+2002", "U+2003", "U+2004", "U+2005",
         "U+2006", "U+2007", "U+2008", "U+2009", "U+200A", "U+2028", "U+2029",
         "U+202F", "U+205F", "U+3000"}

\* .replace(/<[^>]*>/g, ''): at a "<" the match runs to the first later ">";
\* a "<" with no later ">" is kept.
RECURSIVE RemoveTags(_)
RemoveTags(s) ==
  IF s = <<>> THEN <<>>
  ELSE IF Head(s) = "<" /\ \E j \in 2..Len(s) : s[j] = ">"
       THEN LET j == CHOOSE k \in 2..Len(s) :
                       s[k] = ">" /\ \A i \in 2..(k - 1) : s[i] # ">"
            IN  RemoveTags(SubSeq(s, j + 1, Len(s)))
       ELSE <<Head(s)>> \o RemoveTags(Tail(s))

\* .replace(/pat/g, rep) for a literal pattern: leftmost, non-overlapping.
RECURSIVE ReplaceAll(_, _, _)
ReplaceAll(s, pat, rep) ==
  IF Len(s) < Len(pat) THEN s
  ELSE IF SubSeq(s, 1, Len(pat)) = pat
       THEN rep \o ReplaceAll(SubSeq(s, Len(pat) + 1, Len(s)), pat, rep)
       ELSE <<Head(s)>> \o ReplaceAll(Tail(s), pat, rep)

\* .trim(): what is left between the first and the last character that is
\* no white space.
Trim(s) ==
  LET kept == {i \in 1..Len(s) : ~IsSpace(s[i])}
  IN  IF kept = {} THEN <<>>
      ELSE SubSeq(s, CHOOSE i \in kept : \A j \in kept : i <= j,
                  CHOOSE i \in kept : \A j \in kept : j <= i)

stripHtml(html) ==
  LET NBSP == <<"&", "n", "b", "s", "p", ";">>
      LT   == <<"&", "l", "t", ";">>
      GT   == <<"&", "g", "t", ";">>
      AMP  == <<"&", "a", "m", "p", ";">>
      QUOT == <<"&", "q", "u", "o", "t", ";">>
      APOS == <<"&", "#", "0", "3", "9", ";">>
      s1 == RemoveTags(html)
      s2 == ReplaceAll(s1, NBSP, <<" ">>)
      s3 == ReplaceAll(s2, LT, <<"<">>)
      s4 == ReplaceAll(s3, GT, <<">">>)
      s5 == ReplaceAll(s4, AMP, <<"&">>)
      s6 == ReplaceAll(s5, QUOT, <<"\"">>)
      s7 == ReplaceAll(s6, APOS, <<"'">>)
  IN  Trim(s7)

\* Message texts: "<b>hi</b> " and "a&amp;lt;&lt;b".
MsgTagged == <<"<", "b", ">", "h", "i", "<", "/", "b", ">", " ">>
MsgEntity == <<"a", "&", "a", "m", "p", ";", "l", "t", ";", "&", "l", "t", ";", "b">>
Msgs      == {MsgTagged}              \* first message of a stored conversation
ApiMsgs   == {MsgEntity}              \* what an API caller posts
TypedMsgs == {MsgTagged}              \* what the user types in the page

AgentText == <<"o", "k">>      \* the text assembled from the stream's parts
GatewayTools == {"search"}     \* what the gateway lists when it answers

\* ----------------------------------------------------------------- state
VARIABLES
  \* server side
  turn,          \* turn[t]: the request with id t, see NoTurn
  store,         \* ConversationStore: the conversation's ConversationHistory rows
  titleJobs,     \* queue of enqueued title-generation jobs (their message)
  activeToken,   \* turn that minted the valid internal_chat_session token, 0: none
  \* client side (SingleConversation)
  mounted,       \* the page is loaded and the component mounted
  loaded,        \* loader data: conversation.ConversationHistory
  messages,      \* useChat messages
  status,        \* useChat status
  retryCount,    \* useState retryCount
  timerArmed,    \* statusTimeoutRef holds a pending 30 s timeout
  timers,        \* the pending 30 s timeouts: the status each was set in, ms left
  hasAutoStarted,\* hasAutoStartedRef.current
  refreshPending,\* number of pending setTimeout(revalidator.revalidate, 1000)
  reloadPending, \* setTimeout(window.location.reload, 2000) pending
  cur,           \* turn id of the request the client last sent, 0: none
  load,          \* the page's request to the route's loader, see NoLoad
  \* observation of the client's recovery calls
  lastEvent,     \* what the client did last, revalidations aside
  recovSince,    \* revalidate recoveries since retryCount was last 0
  stallsSince,   \* watchdog timeouts since retryCount was last 0
  errsSince,     \* onError calls since retryCount was last 0
  unchangedFor,  \* ms the status has stayed as it is, up to StatusTimeout
  \* lib/model.server
  env,           \* the environment configuration (env.server)
  resolved,      \* the last call of getModel / getModelForTask and its outcome
  emb,           \* the embedding call in progress, see NoEmbed
  \* routes/api.v1.teams.$teamId.members
  teamMembers,   \* the TeamMember table: its rows in the order of creation
  invites,       \* the invite requests, see NoInvite
  \* routes/api.v1.conversation.$conversationId.delete
  deletion       \* the calls of deleteConversation and the last response

serverVars == <<turn, store, titleJobs, activeToken>>
clientVars == <<mounted, loaded, messages, status, retryCount, timerArmed,
                timers, hasAutoStarted, refreshPending, reloadPending, cur,
                load>>
obsVars    == <<lastEvent, recovSince, stallsSince, errsSince, unchangedFor>>
libVars    == <<env, resolved, emb>>
teamVars   == <<teamMembers, invites>>
convVars   == <<turn, store, titleJobs, activeToken,
                mounted, loaded, messages, status, retryCount, timerArmed,
                timers, hasAutoStarted, refreshPending, reloadPending, cur,
                load, lastEvent, recovSince, stallsSince, errsSince, unchangedFor,
                deletion>>
vars       == <<turn, store, titleJobs, activeToken,
                mounted, loaded, messages, status, retryCount, timerArmed,
                timers, hasAutoStarted, refreshPending, reloadPending, cur,
                load, lastEvent, recovSince, stallsSince, errsSince, unchangedFor,
                env, resolved, emb, teamMembers, invites, deletion>>

NoTurn == [pc |-> "none", req |-> <<>>, held |-> 0, tools |-> {},
           hist |-> <<>>, steps |-> 0, toolCalls |-> 0, fail |-> "none",
           warn |-> 0, errlog |-> 0, fin |-> 0, conn |-> "none",
           gw |-> "unknown", toolFailed |-> FALSE, cbLeft |-> <<>>]

UserRow(t, text)  == [role |-> "User",  text |-> text, turn |-> t]
AgentRow(t, text) == [role |-> "Agent", text |-> text, turn |-> t]

\* ConversationStore (services/conversation.server): getHistory returns the
\* stored Turns in stored order, appendTurn adds one Turn at the end.
getHistory(s) == s
appendTurn(s, row) == Append(s, row)

\* An invite request: the caller (authentication.userId), params.teamId, the
\* user that has body.email (0: no user has it), body.role, the id of the
\* row findUnique returned (0: null) and the HTTP status of the response.
NoInvite == [pc |-> "none", userId |-> 0, teamId |-> 0, invitedUser |-> 0,
             role |-> "MEMBER", existingMember |-> 0, status |-> 0]

\* No team, no invite request.
TeamRest ==
  /\ teamMembers = <<>>
  /\ invites = [i \in 1..MaxInvites |-> NoInvite]

\* The loader's request: not sent ("none"), sent by the browser ("sent"), or
\* answered with the ConversationHistory the loader read ("read").
NoLoad == [pc |-> "none", data |-> <<>>]

\* Rows of the store written by turn t with the given role.
RowsOf(s, t, role) == {i \in 1..Len(s) : s[i].turn = t /\ s[i].role = role}

Started    == {t \in TurnIds : turn[t].pc # "none"}
NextTurnId == Cardinality(Started) + 1
InFlight   == {t \in TurnIds : turn[t].pc \notin {"none", "done", "failed"}}

\* A further request may be sent within the bound.
CanStart(limit) == NextTurnId <= limit

\* The browser may send a further request within the bounds.
CanSend(limit) == CanStart(limit) /\ (InFlight = {} \/ NextTurnId <= MaxOverlap)

\* ------------------------------------------------------ lib/model.server
\* JavaScript values: a string is a sequence of one-character strings; the
\* values that are no strings are one-element sequences that no string equals.
Undefined   == <<"undefined">>
FunctionObj == <<"function">>          \* a function inherited from Object.prototype
ProtoObj    == <<"[object Object]">>   \* Object.prototype itself

\* Truthiness: undefined and "" are falsy.
Truthy(v) == v # Undefined /\ v # <<>>

\* a || b
OrElse(a, b) == IF Truthy(a) THEN a ELSE b

\* String.prototype.includes
Includes(str, pat) ==
  \E i \in 1..(Len(str) - Len(pat) + 1) : SubSeq(str, i, i + Len(pat) - 1) = pat

ClaudeMarker == <<"c", "l", "a", "u", "d", "e">>
GeminiMarker == <<"g", "e", "m", "i", "n", "i">>

\* Model names.
\* "gpt-5-2025-08-07"
Gpt5 == <<"g", "p", "t", "-", "5", "-", "2", "0", "2", "5", "-", "0", "8",
    "-", "0", "7">>
\* "gpt-4.1-2025-04-14"
Gpt41 == <<"g", "p", "t", "-", "4", ".", "1", "-", "2", "0", "2", "5", "-",
    "0", "4", "-", "1", "4">>
\* "claude-sonnet-4-5"
ClaudeSonnet45 == <<"c", "l", "a", "u", "d", "e", "-", "s", "o", "n", "n",
    "e", "t", "-", "4", "-", "5">>
\* "claude-3-7-sonnet-20250219"
Claude37Sonnet == <<"c", "l", "a", "u", "d", "e", "-", "3", "-", "7", "-",
    "s", "o", "n", "n", "e", "t", "-", "2", "0", "2", "5", "0", "2", "1",
    "9">>
\* "claude-3-opus-20240229"
Claude3Opus == <<"c", "l", "a", "u", "d", "e", "-", "3", "-", "o", "p",
    "u", "s", "-", "2", "0", "2", "4", "0", "2", "2", "9">>
\* "gemini-2.5-pro-preview-03-25"
Gemini25Pro == <<"g", "e", "m", "i", "n", "i", "-", "2", ".", "5", "-",
    "p", "r", "o", "-", "p", "r", "e", "v", "i", "e", "w", "-", "0", "3",
    "-", "2", "5">>
\* "gemini-2.0-flash"
Gemini20Flash == <<"g", "e", "m", "i", "n", "i", "-", "2", ".", "0", "-",
    "f", "l", "a", "s", "h">>
\* "us.amazon.nova-premier-v1:0"
NovaPremier == <<"u", "s", ".", "a", "m", "a", "z", "o", "n", ".", "n",
    "o", "v", "a", "-", "p", "r", "e", "m", "i", "e", "r", "-", "v", "1",
    ":", "0">>
\* "gpt-5-mini-2025-08-07"
Gpt5Mini == <<"g", "p", "t", "-", "5", "-", "m", "i", "n", "i", "-", "2",
    "0", "2", "5", "-", "0", "8", "-", "0", "7">>
\* "gpt-4.1-mini-2025-04-14"
Gpt41Mini == <<"g", "p", "t", "-", "4", ".", "1", "-", "m", "i", "n", "i",
    "-", "2", "0", "2", "5", "-", "0", "4", "-", "1", "4">>
\* "claude-3-5-haiku-20241022"
Claude35Haiku == <<"c", "l", "a", "u", "d", "e", "-", "3", "-", "5", "-",
    "h", "a", "i", "k", "u", "-", "2", "0", "2", "4", "1", "0", "2", "2">>
\* "gemini-2.5-flash-preview-04-17"
Gemini25Flash == <<"g", "e", "m", "i", "n", "i", "-", "2", ".", "5", "-",
    "f", "l", "a", "s", "h", "-", "p", "r", "e", "v", "i", "e", "w", "-",
    "0", "4", "-", "1", "7">>
\* "gemini-2.0-flash-lite"
Gemini20FlashLite == <<"g", "e", "m", "i", "n", "i", "-", "2", ".", "0",
    "-", "f", "l", "a", "s", "h", "-", "l", "i", "t", "e">>
\* "llama2"
Llama2 == <<"l", "l", "a", "m", "a", "2">>
\* "my-claude-gemini"
MyClaudeGemini == <<"m", "y", "-", "c", "l", "a", "u", "d", "e", "-", "g",
    "e", "m", "i", "n", "i">>
\* "constructor"
ConstructorName == <<"c", "o", "n", "s", "t", "r", "u", "c", "t", "o", "r">>
\* "text-embedding-3-small"
TextEmbedding3Small == <<"t", "e", "x", "t", "-", "e", "m", "b", "e", "d",
    "d", "i", "n", "g", "-", "3", "-", "s", "m", "a", "l", "l">>
\* "nomic-embed-text"
NomicEmbed == <<"n", "o", "m", "i", "c", "-", "e", "m", "b", "e", "d", "-",
    "t", "e", "x", "t">>

DefaultModel == Gpt41     \* env.MODEL || "gpt-4.1-2025-04-14"

\* A table whose Anthropic entries point at an OpenAI model.
downgrades_CrossProvider ==
  << <<Gpt5, Gpt5Mini>>,
     <<Gpt41, Gpt41Mini>>,
     <<ClaudeSonnet45, Gpt41Mini>>,
     <<Claude37Sonnet, Gpt41Mini>>,
     <<Claude3Opus, Gpt41Mini>>,
     <<Gemini25Pro, Gemini25Flash>>,
     <<Gemini20Flash, Gemini20FlashLite>>,
     <<NovaPremier, NovaPremier>> >>

\* const downgrades: Record<string, string>, as its own properties in order.
downgrades ==
  << <<Gpt5, Gpt5Mini>>,
     <<Gpt41, Gpt41Mini>>,
     <<ClaudeSonnet45, Claude35Haiku>>,
     <<Claude37Sonnet, Claude35Haiku>>,
     <<Claude3Opus, Claude35Haiku>>,
     <<Gemini25Pro, Gemini25Flash>>,
     <<Gemini20Flash, Gemini20FlashLite>>,
     <<NovaPremier, NovaPremier>> >>

OwnKeys(obj) == {obj[i][1] : i \in 1..Len(obj)}

\* Names of the function-valued properties every object literal inherits from
\* Object.prototype: constructor, toString, valueOf, hasOwnProperty,
\* isPrototypeOf, propertyIsEnumerable, toLocaleString, __defineGetter__,
\* __defineSetter__, __lookupGetter__, __lookupSetter__.
ProtoFunctionKeys ==
  {ConstructorName,
   <<"t", "o", "S", "t", "r", "i", "n", "g">>,
   <<"v", "a", "l", "u", "e", "O", "f">>,
   <<"h", "a", "s", "O", "w", "n", "P", "r", "o", "p", "e", "r", "t", "y">>,
   <<"i", "s", "P", "r", "o", "t", "o", "t", "y", "p", "e", "O", "f">>,
   <<"p", "r", "o", "p", "e", "r", "t", "y", "I", "s", "E", "n", "u", "m", "e", "r", "a", "b", "l", "e">>,
   <<"t", "o", "L", "o", "c", "a", "l", "e", "S", "t", "r", "i", "n", "g">>,
   <<"_", "_", "d", "e", "f", "i", "n", "e", "G", "e", "t", "t", "e", "r", "_", "_">>,
   <<"_", "_", "d", "e", "f", "i", "n", "e", "S", "e", "t", "t", "e", "r", "_", "_">>,
   <<"_", "_", "l", "o", "o", "k", "u", "p", "G", "e", "t", "t", "e", "r", "_", "_">>,
   <<"_", "_", "l", "o", "o", "k", "u", "p", "S", "e", "t", "t", "e", "r", "_", "_">>}
ProtoObjectKeys == {<<"_", "_", "p", "r", "o", "t", "o", "_", "_">>}

\* obj[key] for an object literal: the own property, else the inherited one,
\* else undefined.
GetProperty(obj, key) ==
  IF key \in OwnKeys(obj)
  THEN LET i == CHOOSE j \in 1..Len(obj) : obj[j][1] = key IN obj[i][2]
  ELSE IF key \in ProtoFunctionKeys THEN FunctionObj
  ELSE IF key \in ProtoObjectKeys THEN ProtoObj
  ELSE Undefined

\* getModelForTask(complexity) under environment e.
getModelForTask(e, complexity) ==
  LET baseModel == OrElse(e.MODEL, DefaultModel)
  IN  IF complexity = "high" THEN baseModel
      ELSE OrElse(GetProperty(downgrades, baseModel), baseModel)

\* A Number is NaN, an infinity, or a finite double, written by the decimal
\* it is nearest to: (-1)^neg * 0.d1d2...dn * 10^point, digits the d1...dn,
\* with d1 and dn not 0 (zero has no digit and point 0, and keeps its sign).
NaN == [kind |-> "NaN", neg |-> FALSE, digits |-> <<>>, point |-> 0]
Infinity(neg) == [kind |-> "Infinity", neg |-> neg, digits |-> <<>>, point |-> 0]

\* The range of the doubles, as decimals 0.d1d2...dn * 10^point, here the
\* point of its two ends. over is
\* 2^1024 - 2^970, half-way between the largest double and 2^1024: a value
\* from there upwards rounds to Infinity. under is 2^-1075, half of the
\* smallest double: a value up to there rounds to zero.
DoubleRange == [over |-> 309, under |-> 0 - 323]

\* The digits d1d2...dn of the two ends of DoubleRange.
DoubleRangeDigits ==
  [over |-> <<
        1, 7, 9, 7, 6, 9, 3, 1, 3, 4, 8, 6, 2, 3, 1, 5, 8, 0, 7, 9, 3, 7, 2,
        8, 9, 7, 1, 4, 0, 5, 3, 0, 3, 4, 1, 5, 0, 7, 9, 9, 3, 4, 1, 3, 2, 7,
        1, 0, 0, 3, 7, 8, 2, 6, 9, 3, 6, 1, 7, 3, 7, 7, 8, 9, 8, 0, 4, 4, 4,
        9, 6, 8, 2, 9, 2, 7, 6, 4, 7, 5, 0, 9, 4, 6, 6, 4, 9, 0, 1, 7, 9, 7,
        7, 5, 8, 7, 2, 0, 7, 0, 9, 6, 3, 3, 0, 2, 8, 6, 4, 1, 6, 6, 9, 2, 8,
        8, 7, 9, 1, 0, 9, 4, 6, 5, 5, 5, 5, 4, 7, 8, 5, 1, 9, 4, 0, 4, 0, 2,
        6, 3, 0, 6, 5, 7, 4, 8, 8, 6, 7, 1, 5, 0, 5, 8, 2, 0, 6, 8, 1, 9, 0,
        8, 9, 0, 2, 0, 0, 0, 7, 0, 8, 3, 8, 3, 6, 7, 6, 2, 7, 3, 8, 5, 4, 8,
        4, 5, 8, 1, 7, 7, 1, 1, 5, 3, 1, 7, 6, 4, 4, 7, 5, 7, 3, 0, 2, 7, 0,
        0, 6, 9, 8, 5, 5, 5, 7, 1, 3, 6, 6, 9, 5, 9, 6, 2, 2, 8, 4, 2, 9, 1,
        4, 8, 1, 9, 8, 6, 0, 8, 3, 4, 9, 3, 6, 4, 7, 5, 2, 9, 2, 7, 1, 9, 0,
        7, 4, 1, 6, 8, 4, 4, 4, 3, 6, 5, 5, 1, 0, 7, 0, 4, 3, 4, 2, 7, 1, 1,
        5, 5, 9, 6, 9, 9, 5, 0, 8, 0, 9, 3, 0, 4, 2, 8, 8, 0, 1, 7, 7, 9, 0,
        4, 1, 7, 4, 4, 9, 7, 7, 9, 2>>,
   under |-> <<
        2, 4, 7, 0, 3, 2, 8, 2, 2, 9, 2, 0, 6, 2, 3, 2, 7, 2, 0, 8, 8, 2, 8,
        4, 3, 9, 6, 4, 3, 4, 1, 1, 0, 6, 8, 6, 1, 8, 2, 5, 2, 9, 9, 0, 1, 3,
        0, 7, 1, 6, 2, 3, 8, 2, 2, 1, 2, 7, 9, 2, 8, 4, 1, 2, 5, 0, 3, 3, 7,
        7, 5, 3, 6, 3, 5, 1, 0, 4, 3, 7, 5, 9, 3, 2, 6, 4, 9, 9, 1, 8, 1, 8,
        0, 8, 1, 7, 9, 9, 6, 1, 8, 9, 8, 9, 8, 2, 8, 2, 3, 4, 7, 7, 2, 2, 8,
        5, 8, 8, 6, 5, 4, 6, 3, 3, 2, 8, 3, 5, 5, 1, 7, 7, 9, 6, 9, 8, 9, 8,
        1, 9, 9, 3, 8, 7, 3, 9, 8, 0, 0, 5, 3, 9, 0, 9, 3, 9, 0, 6, 3, 1, 5,
        0, 3, 5, 6, 5, 9, 5, 1, 5, 5, 7, 0, 2, 2, 6, 3, 9, 2, 2, 9, 0, 8, 5,
        8, 3, 9, 2, 4, 4, 9, 1, 0, 5, 1, 8, 4, 4, 3, 5, 9, 3, 1, 8, 0, 2, 8,
        4, 9, 9, 3, 6, 5, 3, 6, 1, 5, 2, 5, 0, 0, 3, 1, 9, 3, 7, 0, 4, 5, 7,
        6, 7, 8, 2, 4, 9, 2, 1, 9, 3, 6, 5, 6, 2, 3, 6, 6, 9, 8, 6, 3, 6, 5,
        8, 4, 8, 0, 7, 5, 7, 0, 0, 1, 5, 8, 5, 7, 6, 9, 2, 6, 9, 9, 0, 3, 7,
        0, 6, 3, 1, 1, 9, 2, 8, 2, 7, 9, 5, 5, 8, 5, 5, 1, 3, 3, 2, 9, 2, 7,
        8, 3, 4, 3, 3, 8, 4, 0, 9, 3, 5, 1, 9, 7, 8, 0, 1, 5, 5, 3, 1, 2, 4,
        6, 5, 9, 7, 2, 6, 3, 5, 7, 9, 5, 7, 4, 6, 2, 2, 7, 6, 6, 4, 6, 5, 2,
        7, 2, 8, 2, 7, 2, 2, 0, 0, 5, 6, 3, 7, 4, 0, 0, 6, 4, 8, 5, 4, 9, 9,
        9, 7, 7, 0, 9, 6, 5, 9, 9, 4, 7, 0, 4, 5, 4, 0, 2, 0, 8, 2, 8, 1, 6,
        6, 2, 2, 6, 2, 3, 7, 8, 5, 7, 3, 9, 3, 4, 5, 0, 7, 3, 6, 3, 3, 9, 0,
        0, 7, 9, 6, 7, 7, 6, 1, 9, 3, 0, 5, 7, 7, 5, 0, 6, 7, 4, 0, 1, 7, 6,
        3, 2, 4, 6, 7, 3, 6, 0, 0, 9, 6, 8, 9, 5, 1, 3, 4, 0, 5, 3, 5, 5, 3,
        7, 4, 5, 8, 5, 1, 6, 6, 6, 1, 1, 3, 4, 2, 2, 3, 7, 6, 6, 6, 7, 8, 6,
        0, 4, 1, 6, 2, 1, 5, 9, 6, 8, 0, 4, 6, 1, 9, 1, 4, 4, 6, 7, 2, 9, 1,
        8, 4, 0, 3, 0, 0, 5, 3, 0, 0, 5, 7, 5, 3, 0, 8, 4, 9, 0, 4, 8, 7, 6,
        5, 3, 9, 1, 7, 1, 1, 3, 8, 6, 5, 9, 1, 6, 4, 6, 2, 3, 9, 5, 2, 4, 9,
        1, 2, 6, 2, 3, 6, 5, 3, 8, 8, 1, 8, 7, 9, 6, 3, 6, 2, 3, 9, 3, 7, 3,
        2, 8, 0, 4, 2, 3, 8, 9, 1, 0, 1, 8, 6, 7, 2, 3, 4, 8, 4, 9, 7, 6, 6,
        8, 2, 3, 5, 0, 8, 9, 8, 6, 3, 3, 8, 8, 5, 8, 7, 9, 2, 5, 6, 2, 8, 3,
        0, 2, 7, 5, 5, 9, 9, 5, 6, 5, 7, 5, 2, 4, 4, 5, 5, 5, 0, 7, 2, 5, 5,
        1, 8, 9, 3, 1, 3, 6, 9, 0, 8, 3, 6, 2, 5, 4, 7, 7, 9, 1, 8, 6, 9, 4,
        8, 6, 6, 7, 9, 9, 4, 9, 6, 8, 3, 2, 4, 0, 4, 9, 7, 0, 5, 8, 2, 1, 0,
        2, 8, 5, 1, 3, 1, 8, 5, 4, 5, 1, 3, 9, 6, 2, 1, 3, 8, 3, 7, 7, 2, 2,
        8, 2, 6, 1, 4, 5, 4, 3, 7, 6, 9, 3, 4, 1, 2, 5, 3, 2, 0, 9, 8, 5, 9,
        1, 3, 2, 7, 6, 6, 7, 2, 3, 6, 3, 2, 8, 1, 2, 5>>]

\* The double nearest to 0.d1d2...dn * 10^point for the digits ds (any zeros
\* in front and at the end): Infinity from DoubleRange.over upwards, zero up
\* to DoubleRange.under. Inside the range the rounding to 53 bits is not
\* computed: the double is written by the decimal given.
Finite(neg, ds, point) ==
  LET Zero == [kind |-> "finite", neg |-> neg, digits |-> <<>>, point |-> 0]
      Less(a, pa, b, pb) ==
        IF pa # pb THEN pa < pb
        ELSE \E k \in 1..(Len(a) + Len(b)) :
               /\ (IF k <= Len(a) THEN a[k] ELSE 0)
                    < (IF k <= Len(b) THEN b[k] ELSE 0)
               /\ \A j \in 1..(k - 1) :
                    (IF j <= Len(a) THEN a[j] ELSE 0)
                      = (IF j <= Len(b) THEN b[j] ELSE 0)
      Rounded(d, p) ==
        IF ~Less(d, p, DoubleRangeDigits.over, DoubleRange.over)
        THEN Infinity(neg)
        ELSE IF ~Less(DoubleRangeDigits.under, DoubleRange.under, d, p)
        THEN Zero
        ELSE [kind |-> "finite", neg |-> neg, digits |-> d, point |-> p]
      Stripped(first, last) ==
        Rounded(SubSeq(ds, first, last), point - (first - 1))
  IN  IF \A i \in 1..Len(ds) : ds[i] = 0 THEN Zero
      ELSE Stripped(CHOOSE i \in 1..Len(ds) :
                      ds[i] # 0 /\ \A j \in 1..(i - 1) : ds[j] = 0,
                    CHOOSE i \in 1..Len(ds) :
                      ds[i] # 0 /\ \A j \in (i + 1)..Len(ds) : ds[j] = 0)

\* The value of a digit of a numeric literal, 99 for any other character.
Digit(c) ==
  CASE c = "0" -> 0 [] c = "1" -> 1 [] c = "2" -> 2 [] c = "3" -> 3
    [] c = "4" -> 4 [] c = "5" -> 5 [] c = "6" -> 6 [] c = "7" -> 7
    [] c = "8" -> 8 [] c = "9" -> 9
    [] c \in {"a", "A"} -> 10 [] c \in {"b", "B"} -> 11
    [] c \in {"c", "C"} -> 12 [] c \in {"d", "D"} -> 13
    [] c \in {"e", "E"} -> 14 [] c \in {"f", "F"} -> 15
    [] OTHER -> 99

\* s is a non-empty sequence of digits of the base.
AllDigits(s, base) == s # <<>> /\ \A i \in 1..Len(s) : Digit(s[i]) < base

\* The value of a sequence of digits of the base (0 for the empty one), for
\* a sequence short enough for the value to be below 2^31.
RECURSIVE DigitsValue(_, _)
DigitsValue(s, base) ==
  IF s = <<>> THEN 0
  ELSE base * DigitsValue(SubSeq(s, 1, Len(s) - 1), base) + Digit(s[Len(s)])

\* The decimal digits of a * b + c, for the decimal digits a of a natural
\* number of any length (none for 0) and small naturals b and c.
RECURSIVE TimesPlus(_, _, _)
TimesPlus(a, b, c) ==
  IF a = <<>> /\ c = 0 THEN <<>>
  ELSE LET v == (IF a = <<>> THEN 0 ELSE a[Len(a)] * b) + c
       IN  Append(TimesPlus(IF a = <<>> THEN <<>> ELSE SubSeq(a, 1, Len(a) - 1),
                            b, v \div 10),
                  v % 10)

\* The decimal digits of the value of a sequence of digits of the base, of
\* any length.
RECURSIVE RadixDigits(_, _)
RadixDigits(s, base) ==
  IF s = <<>> THEN <<>>
  ELSE TimesPlus(RadixDigits(SubSeq(s, 1, Len(s) - 1), base), base,
                 Digit(s[Len(s)]))

\* Number(v) for undefined or a string (StringToNumber): white space is
\* trimmed; "" is 0; 0x, 0o and 0b literals; a signed Infinity; a signed
\* decimal literal with an optional fraction and exponent; NaN otherwise.
\* An exponent is taken exactly up to nine digits; a longer one is taken as
\* 10^9, which puts the value beyond the range of the doubles whatever the
\* digits before it are: a string has fewer than 2^29 characters.
Number(v) ==
  LET Mantissa(neg, int, frac, xValue) ==
        IF (int \o frac = <<>>) \/ ~AllDigits(int \o frac, 10) THEN NaN
        ELSE Finite(neg, [i \in 1..(Len(int) + Len(frac)) |->
                            Digit((int \o frac)[i])],
                    Len(int) + xValue)
      \* d: where the "." of m is, Len(m) + 1 when it has none
      Fraction(neg, m, d, xValue) ==
        IF \E i \in (d + 1)..Len(m) : m[i] = "." THEN NaN
        ELSE Mantissa(neg, SubSeq(m, 1, d - 1), SubSeq(m, d + 1, Len(m)),
                      xValue)
      \* the value of the digits x of an exponent
      ExponentValue(x) ==
        IF \A i \in 1..Len(x) : x[i] = "0" THEN 0
        ELSE IF \E i \in 1..(Len(x) - 9) : x[i] # "0" THEN 1000000000
        ELSE DigitsValue(SubSeq(x, IF Len(x) > 9 THEN Len(x) - 8 ELSE 1,
                                Len(x)), 10)
      \* m: the text before the exponent, down: its sign is "-", x: its digits
      Exponent(neg, m, down, x) ==
        Fraction(neg, m,
                 IF \E i \in 1..Len(m) : m[i] = "."
                 THEN CHOOSE i \in 1..Len(m) :
                        m[i] = "." /\ \A j \in 1..(i - 1) : m[j] # "."
                 ELSE Len(m) + 1,
                 IF down THEN 0 - ExponentValue(x) ELSE ExponentValue(x))
      \* e: where the "e" of u is, Len(u) + 1 when it has none
      Decimal(neg, u, e) ==
        IF u = <<"I", "n", "f", "i", "n", "i", "t", "y">> THEN Infinity(neg)
        ELSE IF e > Len(u) THEN Exponent(neg, u, FALSE, <<"0">>)
        ELSE IF e < Len(u) /\ u[e + 1] \in {"+", "-"}
        THEN IF ~AllDigits(SubSeq(u, e + 2, Len(u)), 10) THEN NaN
             ELSE Exponent(neg, SubSeq(u, 1, e - 1), u[e + 1] = "-",
                           SubSeq(u, e + 2, Len(u)))
        ELSE IF ~AllDigits(SubSeq(u, e + 1, Len(u)), 10) THEN NaN
             ELSE Exponent(neg, SubSeq(u, 1, e - 1), FALSE,
                           SubSeq(u, e + 1, Len(u)))
      Signed(neg, u) ==
        Decimal(neg, u,
                IF \E i \in 1..Len(u) : u[i] \in {"e", "E"}
                THEN CHOOSE i \in 1..Len(u) :
                       u[i] \in {"e", "E"}
                       /\ \A j \in 1..(i - 1) : u[j] \notin {"e", "E"}
                ELSE Len(u) + 1)
      Radix(decimals) == Finite(FALSE, decimals, Len(decimals))
      StringToNumber(t) ==
        IF t = <<>> THEN Radix(<<>>)
        ELSE IF Len(t) >= 2 /\ t[1] = "0"
                /\ t[2] \in {"x", "X", "o", "O", "b", "B"}
        THEN IF ~AllDigits(SubSeq(t, 3, Len(t)),
                           CASE t[2] \in {"x", "X"} -> 16
                             [] t[2] \in {"o", "O"} -> 8
                             [] OTHER -> 2)
             THEN NaN
             ELSE Radix(RadixDigits(SubSeq(t, 3, Len(t)),
                                    CASE t[2] \in {"x", "X"} -> 16
                                      [] t[2] \in {"o", "O"} -> 8
                                      [] OTHER -> 2))
        ELSE Signed(t[1] = "-", IF t[1] \in {"+", "-"} THEN Tail(t) ELSE t)
  IN  IF v = Undefined THEN NaN ELSE StringToNumber(Trim(v))

\* Number(env.MODEL_TEMPERATURE) || 1: NaN and zero are falsy.
GlobalTemperature(e) ==
  LET n == Number(e.MODEL_TEMPERATURE)
  IN  IF n.kind = "NaN" \/ (n.kind = "finite" /\ n.digits = <<>>)
      THEN Finite(FALSE, <<1>>, 1) ELSE n

AnthropicTemperature == Finite(FALSE, <<5>>, 0)      \* modelTemperature = 0.5

\* A provider's model instance; NoBinding stands for no instance.
Binding(provider, api, modelId, baseURL) ==
  [provider |-> provider, api |-> api, modelId |-> modelId, baseURL |-> baseURL]
NoBinding == Binding("none", "none", Undefined, Undefined)

\* How a call of getModel ends: a throw, or a return of modelInstance; the
\* local modelTemperature is kept beside it.
Throws(msg, temp) ==
  [threw |-> TRUE, error |-> msg, value |-> NoBinding, modelTemperature |-> temp]
Returns(instance, temp) ==
  [threw |-> FALSE, error |-> "", value |-> instance, modelTemperature |-> temp]

\* getModel that tests the Google marker before the Anthropic one.
getModel_GoogleFirst(e, takeModel) ==
  LET model == OrElse(OrElse(takeModel, e.MODEL), DefaultModel)
      temp  == GlobalTemperature(e)
  IN  IF Includes(model, GeminiMarker)
      THEN IF ~Truthy(e.GOOGLE_GENERATIVE_AI_API_KEY)
           THEN Throws("No Google API key found. Set GOOGLE_API_KEY", temp)
           ELSE Returns(Binding("google", "generative", model, Undefined), temp)
      ELSE IF Includes(model, ClaudeMarker)
      THEN IF ~Truthy(e.ANTHROPIC_API_KEY)
           THEN Throws("No Anthropic API key found. Set ANTHROPIC_API_KEY", temp)
           ELSE Returns(Binding("anthropic", "messages", model, Undefined),
                        AnthropicTemperature)
      ELSE IF ~Truthy(e.OPENAI_API_KEY)
           THEN Throws("No OpenAI API key found. Set OPENAI_API_KEY", temp)
           ELSE IF Truthy(e.OPENAI_BASE_URL)
                THEN Returns(Binding("openai", "chat", model, e.OPENAI_BASE_URL),
                             temp)
                ELSE Returns(Binding("openai", "responses", model, Undefined),
                             temp)

\* getModel that always uses the default OpenAI provider.
getModel_IgnoreBaseUrl(e, takeModel) ==
  LET model == OrElse(OrElse(takeModel, e.MODEL), DefaultModel)
      temp  == GlobalTemperature(e)
  IN  IF Includes(model, ClaudeMarker)
      THEN IF ~Truthy(e.ANTHROPIC_API_KEY)
           THEN Throws("No Anthropic API key found. Set ANTHROPIC_API_KEY", temp)
           ELSE Returns(Binding("anthropic", "messages", model, Undefined),
                        AnthropicTemperature)
      ELSE IF Includes(model, GeminiMarker)
      THEN IF ~Truthy(e.GOOGLE_GENERATIVE_AI_API_KEY)
           THEN Throws("No Google API key found. Set GOOGLE_API_KEY", temp)
           ELSE Returns(Binding("google", "generative", model, Undefined), temp)
      ELSE IF ~Truthy(e.OPENAI_API_KEY)
           THEN Throws("No OpenAI API key found. Set OPENAI_API_KEY", temp)
           ELSE Returns(Binding("openai", "responses", model, Undefined), temp)

\* getModel without the check of the Google key.
getModel_NoGoogleCheck(e, takeModel) ==
  LET model == OrElse(OrElse(takeModel, e.MODEL), DefaultModel)
      temp  == GlobalTemperature(e)
  IN  IF Includes(model, ClaudeMarker)
      THEN IF ~Truthy(e.ANTHROPIC_API_KEY)
           THEN Throws("No Anthropic API key found. Set ANTHROPIC_API_KEY", temp)
           ELSE Returns(Binding("anthropic", "messages", model, Undefined),
                        AnthropicTemperature)
      ELSE IF Includes(model, GeminiMarker)
      THEN Returns(Binding("google", "generative", model, Undefined), temp)
      ELSE IF ~Truthy(e.OPENAI_API_KEY)
           THEN Throws("No OpenAI API key found. Set OPENAI_API_KEY", temp)
           ELSE Returns(Binding("openai", "responses", model, Undefined), temp)

\* getModel(takeModel) under environment e. ollamaUrl is read from the
\* environment and then set to undefined before it is tested; the branch that
\* uses it ends without a return statement.
getModel(e, takeModel) ==
  LET model     == OrElse(OrElse(takeModel, e.MODEL), DefaultModel)
      temp      == GlobalTemperature(e)
      ollamaUrl == Undefined
  IN  IF Truthy(ollamaUrl)
      THEN Returns(NoBinding, temp)
      ELSE IF Includes(model, ClaudeMarker)
      THEN IF ~Truthy(e.ANTHROPIC_API_KEY)
           THEN Throws("No Anthropic API key found. Set ANTHROPIC_API_KEY", temp)
           ELSE Returns(Binding("anthropic", "messages", model, Undefined),
                        AnthropicTemperature)
      ELSE IF Includes(model, GeminiMarker)
      THEN IF ~Truthy(e.GOOGLE_GENERATIVE_AI_API_KEY)
           THEN Throws("No Google API key found. Set GOOGLE_API_KEY", temp)
           ELSE Returns(Binding("google", "generative", model, Undefined), temp)
      ELSE IF ~Truthy(e.OPENAI_API_KEY)
           THEN Throws("No OpenAI API key found. Set OPENAI_API_KEY", temp)
           ELSE IF Truthy(e.OPENAI_BASE_URL)
                THEN Returns(Binding("openai", "chat", model, e.OPENAI_BASE_URL),
                             temp)
                ELSE Returns(Binding("openai", "responses", model, Undefined),
                             temp)

\* The environment with nothing configured.
NoEnv ==
  [MODEL |-> Undefined, MODEL_TEMPERATURE |-> Undefined,
   ANTHROPIC_API_KEY |-> Undefined, GOOGLE_GENERATIVE_AI_API_KEY |-> Undefined,
   OPENAI_API_KEY |-> Undefined, OPENAI_BASE_URL |-> Undefined,
   OLLAMA_URL |-> Undefined, EMBEDDING_MODEL |-> Undefined,
   OPENAI_EMBEDDINGS_BASE_URL |-> Undefined]

SomeKey == <<"k">>
SomeUrl == <<"u">>
Configured(values) == {Undefined} \cup values

ModelNames ==
  {Gpt5, Gpt41, ClaudeSonnet45, Claude37Sonnet, Claude3Opus, Gemini25Pro,
   Gemini20Flash, NovaPremier, Gpt5Mini, Gpt41Mini, Claude35Haiku,
   Gemini25Flash, Gemini20FlashLite, Llama2, MyClaudeGemini, ConstructorName}

\* Arguments getModel is called with.
TakeModels == {Undefined, ClaudeSonnet45, Gemini20Flash, Llama2, MyClaudeGemini}

\* No call made yet.
NoCall ==
  [op |-> "none", complexity |-> "none", arg |-> Undefined, threw |-> FALSE,
   error |-> "", value |-> NoBinding, name |-> Undefined]

\* No embedding call made yet. pc: idle, custom, backoff, sdk, ollama,
\* returned, threw.
NoEmbed ==
  [pc |-> "idle", caller |-> "none", maxRetries |-> 0, attempt |-> 0,
   requests |-> 0, waits |-> <<>>, log |-> <<>>, tried |-> <<>>,
   result |-> "none", error |-> "none", swallowed |-> <<>>]

\* A brand-new conversation: no history yet, or the single user message it was
\* created with (turn 0: written before any request to this route).
InitStores == {<<>>} \cup {<<UserRow(0, m)>> : m \in Msgs}

\* The conversation at rest: no request yet, the page not loaded.
ConvRest ==
  /\ turn = [t \in TurnIds |-> NoTurn]
  /\ titleJobs = <<>>
  /\ activeToken = 0
  /\ mounted = FALSE
  /\ loaded = <<>>
  /\ messages = <<>>
  /\ status = "ready"
  /\ retryCount = 0
  /\ timerArmed = FALSE
  /\ timers = <<>>
  /\ hasAutoStarted = FALSE
  /\ refreshPending = 0
  /\ reloadPending = FALSE
  /\ cur = 0
  /\ load = NoLoad
  /\ lastEvent = "none"
  /\ recovSince = 0
  /\ stallsSince = 0
  /\ errsSince = 0
  /\ unchangedFor = 0
  /\ deletion = [calls |-> 0, status |-> 0]

Init ==
  /\ store \in InitStores
  /\ ConvRest
  /\ TeamRest
  /\ env = NoEnv
  /\ resolved = NoCall
  /\ emb = NoEmbed

\* ------------------------------------------------- server: action handler
\* A request to the route: body.message.parts[0].text is the message.
NewTurn(text) == [NoTurn EXCEPT !.pc = "delete", !.req = text, !.conn = "open"]

\* The caller aborts its request (stop() of useChat aborts the fetch). The
\* connection remembers whether the provider stream was open at that moment.
StopConn(t) ==
  IF t # 0 /\ turn[t].conn = "open"
  THEN [turn EXCEPT ![t].conn = IF turn[t].pc = "stream"
                                THEN "stoppedStreaming" ELSE "stopped"]
  ELSE turn

Stopped(t) == turn[t].conn \in {"stopped", "stoppedStreaming"}

\* POST /api/v1/conversation by an API caller (allowJWT, corsStrategy "all").
Request(limit, m) ==
  /\ CanStart(limit)
  /\ turn' = [turn EXCEPT ![NextTurnId] = NewTurn(m)]
  /\ UNCHANGED <<store, titleJobs, activeToken, clientVars, obsVars, libVars, teamVars, deletion>>

\* The API caller aborts its request.
Abort(t) ==
  /\ turn[t].conn = "open"
  /\ turn' = StopConn(t)
  /\ UNCHANGED <<store, titleJobs, activeToken, clientVars, obsVars, libVars, teamVars, deletion>>

\* The handler throws; logger.error precedes the throw for the token and for
\* the gateway client.
Fail(t, cause) ==
  turn' = [turn EXCEPT ![t].pc = "failed", ![t].fail = cause,
                       ![t].errlog = IF cause \in {"auth", "mcp"}
                                     THEN @ + 1 ELSE @]

\* deletePersonalAccessTokenByName({name: "internal_chat_session", userId})
DeleteToken(t) ==
  /\ turn[t].pc = "delete"
  /\ activeToken' = 0
  /\ turn' = [turn EXCEPT ![t].pc = "mint"]
  /\ UNCHANGED <<store, titleJobs, clientVars, obsVars, libVars, teamVars, deletion>>

\* MintToken that goes on with the token it found.
MintToken_Reuse(t) ==
  /\ turn[t].pc = "mint"
  /\ IF activeToken = 0
     THEN /\ activeToken' = t
          /\ turn' = [turn EXCEPT ![t].pc = "connect", ![t].held = t]
     ELSE /\ turn' = [turn EXCEPT ![t].pc = "connect", ![t].held = activeToken]
          /\ UNCHANGED activeToken
  /\ UNCHANGED <<store, titleJobs, clientVars, obsVars, libVars, teamVars, deletion>>

\* getOrCreatePersonalAccessToken: the plaintext token exists only on creation;
\* without it the handler throws "Authentication token unavailable".
MintToken(t) ==
  /\ turn[t].pc = "mint"
  /\ IF activeToken = 0
     THEN /\ activeToken' = t
          /\ turn' = [turn EXCEPT ![t].pc = "connect", ![t].held = t]
     ELSE /\ Fail(t, "auth")
          /\ UNCHANGED activeToken
  /\ UNCHANGED <<store, titleJobs, clientVars, obsVars, libVars, teamVars, deletion>>

\* The gateway answers a request of turn t: it is reachable and the bearer
\* token the turn presents is still the valid one.
GatewayAnswers(t, reachable) == reachable /\ activeToken = turn[t].held

\* CreateMCPClient that has saved the user message before it connects.
CreateMCPClient_SavesFirst(t, reachable) ==
  /\ turn[t].pc = "connect"
  /\ store' = appendTurn(store, UserRow(t, turn[t].req))
  /\ IF GatewayAnswers(t, reachable)
     THEN turn' = [turn EXCEPT ![t].pc = "tools", ![t].gw = "up"]
     ELSE turn' = [turn EXCEPT ![t].pc = "failed", ![t].fail = "mcp",
                               ![t].errlog = @ + 1,
                               ![t].gw = IF reachable THEN "up" ELSE "down"]
  /\ UNCHANGED <<titleJobs, activeToken, clientVars, obsVars, libVars, teamVars, deletion>>

\* createMCPClient inside try/catch: a failure is rethrown to the caller.
CreateMCPClient(t, reachable) ==
  /\ turn[t].pc = "connect"
  /\ IF GatewayAnswers(t, reachable)
     THEN turn' = [turn EXCEPT ![t].pc = "tools", ![t].gw = "up"]
     ELSE turn' = [turn EXCEPT ![t].pc = "failed", ![t].fail = "mcp",
                               ![t].errlog = @ + 1,
                               ![t].gw = IF reachable THEN "up" ELSE "down"]
  /\ UNCHANGED <<store, titleJobs, activeToken, clientVars, obsVars, libVars, teamVars, deletion>>

\* ListTools whose failure is rethrown to the caller.
ListTools_Rethrow(t, reachable) ==
  /\ turn[t].pc = "tools"
  /\ IF GatewayAnswers(t, reachable)
     THEN turn' = [turn EXCEPT ![t].pc = "fetch", ![t].tools = GatewayTools,
                               ![t].gw = "up"]
     ELSE turn' = [turn EXCEPT ![t].pc = "failed", ![t].fail = "mcp",
                               ![t].warn = @ + 1,
                               ![t].gw = IF reachable THEN "up" ELSE "down"]
  /\ UNCHANGED <<store, titleJobs, activeToken, clientVars, obsVars, libVars, teamVars, deletion>>

\* ListTools whose failure is swallowed without the log line.
ListTools_Silent(t, reachable) ==
  /\ turn[t].pc = "tools"
  /\ IF GatewayAnswers(t, reachable)
     THEN turn' = [turn EXCEPT ![t].pc = "fetch", ![t].tools = GatewayTools,
                               ![t].gw = "up"]
     ELSE turn' = [turn EXCEPT ![t].pc = "fetch", ![t].tools = {},
                               ![t].gw = IF reachable THEN "up" ELSE "down"]
  /\ UNCHANGED <<store, titleJobs, activeToken, clientVars, obsVars, libVars, teamVars, deletion>>

\* mcpClient.tools() inside try/catch: a failure is logged (warn) and the
\* tool set is empty.
ListTools(t, reachable) ==
  /\ turn[t].pc = "tools"
  /\ IF GatewayAnswers(t, reachable)
     THEN turn' = [turn EXCEPT ![t].pc = "fetch", ![t].tools = GatewayTools,
                               ![t].gw = "up"]
     ELSE turn' = [turn EXCEPT ![t].pc = "fetch", ![t].tools = {},
                               ![t].warn = @ + 1,
                               ![t].gw = IF reachable THEN "up" ELSE "down"]
  /\ UNCHANGED <<store, titleJobs, activeToken, clientVars, obsVars, libVars, teamVars, deletion>>

\* getConversationAndHistory(body.id, userId)
FetchHistory(t) ==
  /\ turn[t].pc = "fetch"
  /\ turn' = [turn EXCEPT ![t].pc = "save", ![t].hist = getHistory(store)]
  /\ UNCHANGED <<store, titleJobs, activeToken, clientVars, obsVars, libVars, teamVars, deletion>>

\* SaveUserMessage that goes on without the append.
SaveUserMessage_Skipped(t) ==
  /\ turn[t].pc = "save"
  /\ turn' = [turn EXCEPT ![t].pc =
                IF Len(turn[t].hist) = 0 THEN "title" ELSE "open"]
  /\ UNCHANGED <<store, titleJobs, activeToken, clientVars, obsVars, libVars, teamVars, deletion>>

\* createConversationHistory(message, body.id, UserTypeEnum.User)
SaveUserMessage(t) ==
  /\ turn[t].pc = "save"
  /\ store' = appendTurn(store, UserRow(t, turn[t].req))
  /\ turn' = [turn EXCEPT ![t].pc =
                IF Len(turn[t].hist) = 0 THEN "title" ELSE "open"]
  /\ UNCHANGED <<titleJobs, activeToken, clientVars, obsVars, libVars, teamVars, deletion>>

\* await enqueueCreateConversationTitle({conversationId, message: cleanMessage})
EnqueueTitle(t, ok) ==
  /\ turn[t].pc = "title"
  /\ IF ok
     THEN /\ titleJobs' = Append(titleJobs, stripHtml(turn[t].req))
          /\ turn' = [turn EXCEPT ![t].pc = "open"]
     ELSE /\ Fail(t, "enqueue")
          /\ UNCHANGED titleJobs
  /\ UNCHANGED <<store, activeToken, clientVars, obsVars, libVars, teamVars, deletion>>

\* A UI message: role and the text of its parts.
UIMessage(role, text) == [role |-> role, text |-> text]

\* conversationHistory = [...conversationHistory, {message, userType: User}]
\* mapped to UI messages: the session's messages.
SessionMessages(hist, text) ==
  [i \in 1..(Len(hist) + 1) |->
     IF i <= Len(hist)
     THEN UIMessage(IF hist[i].role = "Agent" THEN "assistant" ELSE "user",
                    hist[i].text)
     ELSE UIMessage("user", text)]

\* Array.prototype.pop(): the array without its last element.
Pop(array) == SubSeq(array, 1, Len(array) - 1)

\* streamText({model: getModel(), messages, tools, stopWhen}); getModel throws
\* when the provider's key is missing.
OpenStream(t, ok) ==
  /\ turn[t].pc = "open"
  /\ IF ok
     THEN turn' = [turn EXCEPT ![t].pc = "stream"]
     ELSE Fail(t, "model")
  /\ UNCHANGED <<store, titleJobs, activeToken, clientVars, obsVars, libVars, teamVars, deletion>>

\* stopWhen without stepCountIs(10).
StopWhen_NoBudget(n, answered, asked) == answered \/ asked

\* stopWhen: [stepCountIs(10), hasAnswer, hasQuestion]
StopWhen(n, answered, asked) == n = StepBudget \/ answered \/ asked

\* ModelStep in which an unanswered tool invocation ends the turn in Error.
ModelStep_GatewayFatal(t, callsTool, answered, asked, reachable) ==
  /\ turn[t].pc = "stream"
  /\ callsTool => turn[t].tools # {}
  /\ LET n == turn[t].steps + 1
         bad == callsTool /\ ~GatewayAnswers(t, reachable)
     IN  turn' = [turn EXCEPT
           ![t].steps = n,
           ![t].toolCalls = IF callsTool THEN @ + 1 ELSE @,
           ![t].toolFailed = @ \/ bad,
           ![t].fail = IF bad THEN "mcp" ELSE @,
           ![t].pc = IF bad THEN "failed"
                     ELSE IF callsTool /\ ~StopWhen(n, answered, asked)
                     THEN "stream" ELSE "finish"]
  /\ UNCHANGED <<store, titleJobs, activeToken, clientVars, obsVars, libVars, teamVars, deletion>>

\* One step of the stream: the model generates and, when it asks for a tool of
\* the tool set, the tool is invoked in that step through the gateway client;
\* an invocation the gateway does not answer yields an error result that is
\* handed back to the model like any tool result. The loop goes on only after
\* a step with a tool call and only while no stop condition holds.
ModelStep(t, callsTool, answered, asked, reachable) ==
  /\ turn[t].pc = "stream"
  /\ callsTool => turn[t].tools # {}
  /\ LET n == turn[t].steps + 1
     IN  turn' = [turn EXCEPT
           ![t].steps = n,
           ![t].toolCalls = IF callsTool THEN @ + 1 ELSE @,
           ![t].toolFailed = @ \/ (callsTool /\ ~GatewayAnswers(t, reachable)),
           ![t].pc = IF callsTool /\ ~StopWhen(n, answered, asked)
                     THEN "stream" ELSE "finish"]
  /\ UNCHANGED <<store, titleJobs, activeToken, clientVars, obsVars, libVars, teamVars, deletion>>

\* The provider call throws while streaming.
ProviderError(t) ==
  /\ turn[t].pc = "stream"
  /\ Fail(t, "provider")
  /\ UNCHANGED <<store, titleJobs, activeToken, clientVars, obsVars, libVars, teamVars, deletion>>

\* The messages onFinish is called with: the session's messages followed by
\* the response message.
FinishMessages(t) ==
  Append(SessionMessages(turn[t].hist, turn[t].req),
         UIMessage("assistant", AgentText))

\* onFinish({messages}): lastMessage = messages.pop(), its text parts are
\* joined and createConversationHistory(message, body.id, UserTypeEnum.Agent)
\* is called; cbLeft is the callback's messages array when it returns.
OnFinish(t) ==
  /\ turn[t].pc = "finish"
  /\ LET given == FinishMessages(t)
         lastMessage == given[Len(given)]
     IN  /\ store' = appendTurn(store, AgentRow(t, lastMessage.text))
         /\ turn' = [turn EXCEPT ![t].pc = "done", ![t].fin = @ + 1,
                                 ![t].cbLeft = Pop(given)]
  /\ UNCHANGED <<titleJobs, activeToken, clientVars, obsVars, libVars, teamVars, deletion>>

\* The completion callback is delivered again for a turn that is complete.
DuplicateFinish(t) ==
  /\ turn[t].pc = "done"
  /\ turn[t].fin < MaxFinishCalls
  /\ store' = appendTurn(store, AgentRow(t, AgentText))
  /\ turn' = [turn EXCEPT ![t].fin = @ + 1]
  /\ UNCHANGED <<titleJobs, activeToken, clientVars, obsVars, libVars, teamVars, deletion>>

\* DELETE /api/v1/conversation/:conversationId: the handler awaits
\* deleteConversation(params.conversationId) and answers 200, or 500 when the
\* call throws. deleteConversation (services/conversation.server) marks the
\* conversation; the Turns are append-only and stay in the store.
DeleteConversation(limit, ok) ==
  /\ deletion.calls < limit
  /\ deletion' = [calls |-> deletion.calls + 1,
                  status |-> IF ok THEN 200 ELSE 500]
  /\ UNCHANGED <<serverVars, clientVars, obsVars, libVars, teamVars>>

\* --------------------------------------------- client: SingleConversation
UserMsg(text)  == [role |-> "user", text |-> text]
AgentMsg(text) == [role |-> "assistant", text |-> text]

\* conversation.ConversationHistory.map(...) handed to useChat
HistoryMessages(ld) ==
  [i \in 1..Len(ld) |->
     IF ld[i].role = "Agent" THEN AgentMsg(ld[i].text) ELSE UserMsg(ld[i].text)]

\* isNewConversation && firstMessage?.userType === UserTypeEnum.User
NeedsAutoStart(ld) == Len(ld) = 1 /\ ld[1].role = "User"

\* Watchdog effect: the timeout is cleared and set again only for a monitored
\* status.
Monitored(st) == st = "submitted" \/ st = "streaming"

\* Watchdog effect that sets its timeout without clearing the one set before.
WatchdogTimers_NoClear(pending, st) ==
  IF Monitored(st)
  THEN Append(pending, [status |-> st, left |-> StatusTimeout])
  ELSE pending

\* Watchdog effect on the pending timeouts: clearTimeout of the one held by
\* statusTimeoutRef (the one set last), then setTimeout(..., 30000) for a
\* monitored status. A pending timeout is kept with the status it was set in
\* and the ms left until it is due.
WatchdogTimers(pending, st) ==
  LET cleared == IF pending = <<>> THEN <<>> ELSE Pop(pending)
  IN  IF Monitored(st)
      THEN Append(cleared, [status |-> st, left |-> StatusTimeout])
      ELSE cleared

\* Reset effect: if (status === "idle" || status === "success") and
\* retryCount > 0 then setRetryCount(0).
ResetEffect(st, rc) ==
  IF (st = "idle" \/ st = "success") /\ rc > 0 THEN 0 ELSE rc

\* Auto-start effect's condition.
AutoStart(ld, msgs, st, has) ==
  /\ ~has
  /\ NeedsAutoStart(ld)
  /\ Len(msgs) = 0
  /\ (st = "idle" \/ st = "ready")

Obs == <<recovSince, stallsSince, errsSince>>

\* The render that follows a change of the component's state, with its
\* effects: auto-start (sendMessage of the first message), reset, watchdog.
Render(limit, ld, msgs, st, rc, has, c, trn, obs) ==
  LET auto == AutoStart(ld, msgs, st, has)
      id   == NextTurnId
      st2  == IF auto THEN "submitted" ELSE st
      rc2  == ResetEffect(st2, ResetEffect(st, rc))
  IN  /\ auto => CanSend(limit)
      /\ loaded' = ld
      /\ messages' = IF auto THEN Append(msgs, UserMsg(ld[1].text)) ELSE msgs
      /\ status' = st2
      /\ retryCount' = rc2
      /\ timerArmed' = Monitored(st2)
      /\ timers' = WatchdogTimers(timers, st2)
      /\ hasAutoStarted' = (has \/ auto)
      /\ cur' = IF auto THEN id ELSE c
      /\ turn' = IF auto THEN [trn EXCEPT ![id] = NewTurn(ld[1].text)] ELSE trn
      /\ recovSince'  = IF rc2 = 0 THEN 0 ELSE obs[1]
      /\ stallsSince' = IF rc2 = 0 THEN 0 ELSE obs[2]
      /\ errsSince'   = IF rc2 = 0 THEN 0 ELSE obs[3]
      /\ unchangedFor' = IF st2 = status THEN unchangedFor ELSE 0

\* The browser opens the conversation's page: the request for it is sent.
OpenPage ==
  /\ ~mounted
  /\ load.pc = "none"
  /\ load' = [pc |-> "sent", data |-> <<>>]
  /\ UNCHANGED <<serverVars, mounted, loaded, messages, status, retryCount,
                 timerArmed, timers, hasAutoStarted, refreshPending,
                 reloadPending, cur, obsVars, libVars, teamVars, deletion>>

\* loader: getConversationAndHistory reads the conversation for the request
\* the page has sent; its return value is the response.
Loader ==
  /\ load.pc = "sent"
  /\ load' = [pc |-> "read", data |-> getHistory(store)]
  /\ UNCHANGED <<serverVars, mounted, loaded, messages, status, retryCount,
                 timerArmed, timers, hasAutoStarted, refreshPending,
                 reloadPending, cur, obsVars, libVars, teamVars, deletion>>

\* The page's response has arrived: first render of SingleConversation with
\* the loader's data, then its effects.
Mount(limit) ==
  /\ ~mounted
  /\ load.pc = "read"
  /\ mounted' = TRUE
  /\ load' = NoLoad
  /\ Render(limit, load.data,
            IF NeedsAutoStart(load.data) THEN <<>>
            ELSE HistoryMessages(load.data),
            "ready", 0, FALSE, 0, turn, <<0, 0, 0>>)
  /\ lastEvent' = "mount"
  /\ UNCHANGED <<store, titleJobs, activeToken, refreshPending, reloadPending, libVars, teamVars, deletion>>

\* ConversationTextarea: sendMessage({text: message})
UserSend(limit, m) ==
  /\ mounted
  /\ status \in {"ready", "error"}
  /\ CanSend(limit)
  /\ Render(limit, loaded, Append(messages, UserMsg(m)), "submitted",
            retryCount, hasAutoStarted, NextTurnId,
            [turn EXCEPT ![NextTurnId] = NewTurn(m)], Obs)
  /\ lastEvent' = "send"
  /\ UNCHANGED <<store, titleJobs, activeToken, mounted, refreshPending,
                 reloadPending, load, libVars, teamVars, deletion>>

\* The response's first chunk arrives.
FirstChunk ==
  /\ mounted /\ cur # 0
  /\ status = "submitted"
  /\ turn[cur].conn = "open"
  /\ turn[cur].pc \in {"stream", "finish", "done"}
  /\ Render(MaxSends, loaded, messages, "streaming", retryCount, hasAutoStarted,
            cur, turn, Obs)
  /\ lastEvent' = "chunk"
  /\ UNCHANGED <<store, titleJobs, activeToken, mounted, refreshPending,
                 reloadPending, load, libVars, teamVars, deletion>>

\* The response stream ends normally.
StreamFinished ==
  /\ mounted /\ cur # 0
  /\ status = "streaming"
  /\ turn[cur].conn = "open"
  /\ turn[cur].pc \in {"finish", "done"}
  /\ Render(MaxSends, loaded, Append(messages, AgentMsg(AgentText)), "ready",
            retryCount, hasAutoStarted, cur,
            [turn EXCEPT ![cur].conn = "closed"], Obs)
  /\ lastEvent' = "finish"
  /\ UNCHANGED <<store, titleJobs, activeToken, mounted, refreshPending,
                 reloadPending, load, libVars, teamVars, deletion>>

\* window.location.reload(): the page is unloaded, its timers and requests
\* are dropped, and the browser requests the page again.
Reload(ev) ==
  /\ mounted' = FALSE
  /\ loaded' = <<>>
  /\ messages' = <<>>
  /\ status' = "ready"
  /\ retryCount' = 0
  /\ timerArmed' = FALSE
  /\ timers' = <<>>
  /\ hasAutoStarted' = FALSE
  /\ refreshPending' = 0
  /\ reloadPending' = FALSE
  /\ cur' = 0
  /\ load' = [pc |-> "sent", data |-> <<>>]
  /\ turn' = IF cur # 0 /\ turn[cur].conn = "open"
             THEN [turn EXCEPT ![cur].conn = "closed"] ELSE turn
  /\ lastEvent' = ev
  /\ recovSince' = 0 /\ stallsSince' = 0 /\ errsSince' = 0
  /\ unchangedFor' = 0

\* onError of useChat: the stream reported a terminal error. Every render
\* hands useChat a new onError, a closure over that render's retryCount. The
\* one useChat calls is, by the version of the library, the one of the
\* current render or the one of the render that created the chat (the first,
\* where retryCount is 0); seen is the retryCount of the closure called.
\* setRetryCount(prev => prev + 1) adds to the current count in both.
StreamErrored ==
  /\ mounted /\ cur # 0
  /\ Monitored(status)
  /\ turn[cur].conn = "open"
  /\ turn[cur].pc = "failed"
  /\ \E seen \in {retryCount, 0} :
       IF seen < MaxRetries
       THEN /\ Render(MaxSends, loaded, messages, "error", retryCount + 1,
                      hasAutoStarted, cur, [turn EXCEPT ![cur].conn = "closed"],
                      <<recovSince + 1, stallsSince, errsSince + 1>>)
            /\ refreshPending' = refreshPending + 1
            /\ UNCHANGED reloadPending
       ELSE /\ Render(MaxSends, loaded, messages, "error", retryCount,
                      hasAutoStarted, cur, [turn EXCEPT ![cur].conn = "closed"],
                      <<recovSince, stallsSince, errsSince + 1>>)
            /\ reloadPending' = TRUE
            /\ UNCHANGED refreshPending
  /\ lastEvent' = "error"
  /\ UNCHANGED <<store, titleJobs, activeToken, mounted, load, libVars, teamVars, deletion>>

\* The time of a watchdog timeout passes, d ms, while one is pending that is
\* not yet due. The timeouts of 1000 and 2000 ms (revalidate, reload) were set
\* no later than the pending watchdog timeout, so they have run by then. A
\* timeout may run late: nothing forces a due one to run before the status
\* changes.
Tick(d) ==
  /\ mounted
  /\ refreshPending = 0 /\ ~reloadPending
  /\ \E i \in 1..Len(timers) : timers[i].left > 0
  /\ timers' = [i \in 1..Len(timers) |->
                  [timers[i] EXCEPT !.left = IF @ > d THEN @ - d ELSE 0]]
  /\ unchangedFor' = IF unchangedFor + d < StatusTimeout
                     THEN unchangedFor + d ELSE StatusTimeout
  /\ UNCHANGED <<serverVars, mounted, loaded, messages, status, retryCount,
                 timerArmed, hasAutoStarted, refreshPending, reloadPending,
                 cur, load, lastEvent, recovSince, stallsSince, errsSince,
                 libVars, teamVars, deletion>>

\* The 30 s timeout set by the watchdog effect fires: one of the pending
\* timeouts ran for its full 30 s without being cleared.
WatchdogTimeout ==
  /\ mounted
  /\ timerArmed
  /\ \E i \in 1..Len(timers) : timers[i].left = 0
  /\ IF retryCount < MaxRetries
     THEN /\ Render(MaxSends, loaded, messages, "ready", retryCount + 1,
                    hasAutoStarted, cur, StopConn(cur),
                    <<recovSince + 1, stallsSince + 1, errsSince>>)
          /\ refreshPending' = refreshPending + 1
          /\ lastEvent' = "timeout"
          /\ UNCHANGED <<mounted, reloadPending, load>>
     ELSE Reload("timeout")
  /\ UNCHANGED <<store, titleJobs, activeToken, libVars, teamVars, deletion>>

\* The user presses stop: stop={() => stop()}
UserStop ==
  /\ mounted
  /\ Monitored(status)
  /\ Render(MaxSends, loaded, messages, "ready", retryCount, hasAutoStarted,
            cur, StopConn(cur), Obs)
  /\ lastEvent' = "stop"
  /\ UNCHANGED <<store, titleJobs, activeToken, mounted, refreshPending,
                 reloadPending, load, libVars, teamVars, deletion>>

\* One of the pending setTimeout callbacks runs revalidator.revalidate():
\* the request for the loader's data is sent; a request sent before and not
\* yet rendered is given up for it. The revalidator's change of state runs
\* the watchdog effect again.
Revalidate ==
  /\ mounted
  /\ refreshPending > 0
  /\ refreshPending' = refreshPending - 1
  /\ load' = [pc |-> "sent", data |-> <<>>]
  /\ timerArmed' = Monitored(status)
  /\ timers' = WatchdogTimers(timers, status)
  /\ UNCHANGED <<serverVars, mounted, loaded, messages, status, retryCount,
                 hasAutoStarted, reloadPending, cur, obsVars, libVars,
                 teamVars, deletion>>

\* The revalidation's response has arrived: useTypedLoaderData returns the
\* data the loader read, and the component renders with it.
Revalidated(limit) ==
  /\ mounted
  /\ load.pc = "read"
  /\ load' = NoLoad
  /\ Render(limit, load.data, messages, status, retryCount,
            hasAutoStarted, cur, turn, Obs)
  /\ UNCHANGED lastEvent
  /\ UNCHANGED <<store, titleJobs, activeToken, mounted, refreshPending,
                 reloadPending, libVars, teamVars, deletion>>

\* The pending window.location.reload() of onError runs.
ReloadTimer ==
  /\ mounted
  /\ reloadPending
  /\ Reload("reload")
  /\ UNCHANGED <<store, titleJobs, activeToken, libVars, teamVars, deletion>>

\* ---------------------------------------------------------- specification
\* One step of the handler for request t, every outcome of its calls allowed;
\* the gateway answers the tool invocations of a turn whose token is valid.
ServerStep(t) ==
  \/ DeleteToken(t)
  \/ MintToken(t)
  \/ \E reachable \in BOOLEAN : CreateMCPClient(t, reachable)
  \/ \E reachable \in BOOLEAN : ListTools(t, reachable)
  \/ FetchHistory(t)
  \/ SaveUserMessage(t)
  \/ \E ok \in BOOLEAN : EnqueueTitle(t, ok)
  \/ \E ok \in BOOLEAN : OpenStream(t, ok)
  \/ \E callsTool, answered, asked \in BOOLEAN :
       ModelStep(t, callsTool, answered, asked, TRUE)
  \/ ProviderError(t)
  \/ OnFinish(t)

\* The server, driven by API callers.
Next ==
  \/ \E m \in ApiMsgs : Request(MaxTurns, m)
  \/ \E t \in TurnIds : Abort(t)
  \/ \E t \in TurnIds : ServerStep(t)

Spec == Init /\ [][Next]_vars

\* The server when the gateway may also go away while a turn is streaming;
\* the callers do not abort.
GatewayNext ==
  \/ \E m \in ApiMsgs : Request(MaxTurns, m)
  \/ \E t \in TurnIds : ServerStep(t)
  \/ \E t \in TurnIds : \E callsTool, answered, asked \in BOOLEAN :
       ModelStep(t, callsTool, answered, asked, FALSE)

SpecGateway == Init /\ [][GatewayNext]_vars

\* One step of the handler for one of several overlapping requests of the
\* same user: the gateway is reachable, the queue and the provider answer,
\* and the model answers in one step, with or without a tool invocation.
RaceStep(t) ==
  \/ DeleteToken(t)
  \/ MintToken(t)
  \/ CreateMCPClient(t, TRUE)
  \/ ListTools(t, TRUE)
  \/ FetchHistory(t)
  \/ SaveUserMessage(t)
  \/ EnqueueTitle(t, TRUE)
  \/ OpenStream(t, TRUE)
  \/ \E callsTool \in BOOLEAN : ModelStep(t, callsTool, TRUE, FALSE, TRUE)
  \/ OnFinish(t)

RaceNext ==
  \/ \E m \in ApiMsgs : Request(MaxRacers, m)
  \/ \E t \in TurnIds : RaceStep(t)

SpecRace == Init /\ [][RaceNext]_vars

\* The server when the completion callback may be delivered more than once
\* and the conversation may be deleted.
RefireNext ==
  \/ Next
  \/ \E t \in TurnIds : DuplicateFinish(t)
  \/ \E ok \in BOOLEAN : DeleteConversation(MaxDeletes, ok)

SpecRefire == Init /\ [][RefireNext]_vars

\* One step of the handler for request t in a browser session: the gateway
\* and the queue answer, the model answers in one step without tools, and
\* the provider may fail.
SessionServerStep(t) ==
  \/ DeleteToken(t)
  \/ MintToken(t)
  \/ CreateMCPClient(t, TRUE)
  \/ ListTools(t, TRUE)
  \/ FetchHistory(t)
  \/ SaveUserMessage(t)
  \/ EnqueueTitle(t, TRUE)
  \/ OpenStream(t, TRUE)
  \/ ModelStep(t, FALSE, TRUE, FALSE, TRUE)
  \/ ProviderError(t)
  \/ OnFinish(t)

\* The browser: the page's loads, the user's input, the stream's events and
\* the timers.
ClientStep(limit) ==
  \/ OpenPage
  \/ Mount(limit)
  \/ \E m \in TypedMsgs : UserSend(limit, m)
  \/ FirstChunk
  \/ StreamFinished
  \/ StreamErrored
  \/ Tick(StatusTimeout)
  \/ WatchdogTimeout
  \/ UserStop
  \/ Revalidate
  \/ Revalidated(limit)
  \/ ReloadTimer

\* The conversation page in a browser, with the server behind it.
SessionNext ==
  \/ \E t \in TurnIds : SessionServerStep(t)
  \/ Loader
  \/ ClientStep(MaxSends)

SpecSession == Init /\ [][SessionNext]_vars

\* ------------------------------------------- lib/model.server: the router
\* A caller calls getModel(takeModel); it receives modelInstance or the throw.
Resolve(takeModel) ==
  /\ LET r == getModel(env, takeModel)
     IN  resolved' = [op |-> "getModel", complexity |-> "none",
                      arg |-> takeModel, threw |-> r.threw, error |-> r.error,
                      value |-> r.value, name |-> Undefined]
  /\ UNCHANGED <<convVars, teamVars, env, emb>>

\* A caller calls getModelForTask(complexity).
SelectModel(complexity) ==
  /\ resolved' = [op |-> "getModelForTask", complexity |-> complexity,
                  arg |-> Undefined, threw |-> FALSE, error |-> "",
                  value |-> NoBinding,
                  name |-> getModelForTask(env, complexity)]
  /\ UNCHANGED <<convVars, teamVars, env, emb>>

TemperatureTexts ==
  {<<"0">>, <<"0", ".", "7">>, <<"1", "0">>, <<"1", "e", "-", "4", "0", "0">>}

RouterEnvs ==
  {[NoEnv EXCEPT !.MODEL = m, !.MODEL_TEMPERATURE = tt,
                 !.ANTHROPIC_API_KEY = ak, !.GOOGLE_GENERATIVE_AI_API_KEY = gk,
                 !.OPENAI_API_KEY = ok, !.OPENAI_BASE_URL = bu,
                 !.OLLAMA_URL = ou] :
     m \in Configured(ModelNames \cup {<<>>}),
     tt \in Configured(TemperatureTexts),
     ak \in Configured({SomeKey}), gk \in Configured({SomeKey}),
     ok \in Configured({SomeKey}), bu \in Configured({SomeUrl}),
     ou \in Configured({SomeUrl})}

InitRouter ==
  /\ store = <<>>
  /\ ConvRest
  /\ TeamRest
  /\ env \in RouterEnvs
  /\ resolved = NoCall
  /\ emb = NoEmbed

RouterNext ==
  \/ \E takeModel \in TakeModels : Resolve(takeModel)
  \/ \E complexity \in {"high", "low"} : SelectModel(complexity)

SpecRouter == InitRouter /\ [][RouterNext]_vars

\* --------------------------------------- lib/model.server: the embeddings
\* What one request to the custom endpoint comes to: a 2xx response with
\* data[0].embedding ("ok"), a non-2xx response, a 2xx response without
\* data[0].embedding, a rejected fetch, a 2xx response whose body is no JSON.
Outcomes == {"ok", "non2xx", "missing", "network", "badjson"}

\* The strategy getEmbedding turns to after the given one ("start": none
\* yet); "threw" when none is left.
NextStrategy_OllamaFirst(e, after) ==
  IF after = "start" /\ Truthy(e.OLLAMA_URL) THEN "ollama"
  ELSE IF after \in {"start", "ollama"} /\ Truthy(e.OPENAI_EMBEDDINGS_BASE_URL)
       THEN "custom"
  ELSE IF after # "sdk" /\ e.EMBEDDING_MODEL = TextEmbedding3Small THEN "sdk"
  ELSE "threw"

NextStrategy(e, after) ==
  IF after = "start" /\ Truthy(e.OPENAI_EMBEDDINGS_BASE_URL) THEN "custom"
  ELSE IF after \in {"start", "custom"}
          /\ e.EMBEDDING_MODEL = TextEmbedding3Small THEN "sdk"
  ELSE IF after # "ollama" /\ Truthy(e.OLLAMA_URL) THEN "ollama"
  ELSE "threw"

\* getEmbedding goes on after the strategy `after`: it calls the next one
\* (requestEmbeddingWithRetries with the default maxRetries for the custom
\* endpoint) or throws "All embedding methods failed".
GoOn(e, em, after) ==
  LET nxt == NextStrategy(e, after)
  IN  IF nxt = "threw"
      THEN [em EXCEPT !.pc = "threw", !.error = "all-failed"]
      ELSE [em EXCEPT !.pc = nxt, !.tried = Append(@, nxt),
                      !.attempt = IF nxt = "custom" THEN 1 ELSE @,
                      !.maxRetries = IF nxt = "custom"
                                     THEN DefaultMaxRetries ELSE @]

\* getEmbedding(text) is called.
GetEmbedding ==
  /\ emb.pc = "idle"
  /\ emb' = GoOn(env, [emb EXCEPT !.caller = "getEmbedding"], "start")
  /\ UNCHANGED <<convVars, teamVars, env, resolved>>

\* requestEmbeddingWithRetries is called, with the option maxRetries given
\* or left out (the default applies). With maxRetries below 1 the loop body
\* never runs and the function throws "Embedding request failed after
\* retries".
RequestEmbeddingWithRetries(given, option) ==
  /\ emb.pc = "idle"
  /\ ~given => option = 0
  /\ LET max == IF given THEN option ELSE DefaultMaxRetries
     IN  emb' = IF max < 1
                THEN [emb EXCEPT !.caller = "direct", !.maxRetries = max,
                                 !.pc = "threw", !.error = "after-retries"]
                ELSE [emb EXCEPT !.caller = "direct", !.maxRetries = max,
                                 !.pc = "custom", !.attempt = 1,
                                 !.tried = <<"custom">>]
  /\ UNCHANGED <<convVars, teamVars, env, resolved>>

\* Delay that grows by 2 seconds per attempt.
Delay_Linear(attempt) == 2 * attempt * 1000

\* Math.pow(2, attempt) * 1000, in milliseconds.
Delay(attempt) == (2 ^ attempt) * 1000

\* CustomAttempt that tests attempt === maxRetries + 1.
CustomAttempt_OneMore(outcome) ==
  /\ emb.pc = "custom"
  /\ LET made == [emb EXCEPT !.requests = @ + 1, !.log = Append(@, outcome)]
     IN  emb' =
           IF outcome = "ok"
           THEN [made EXCEPT !.pc = "returned", !.result = "custom"]
           ELSE IF emb.attempt = emb.maxRetries + 1
           THEN IF emb.caller = "direct"
                THEN [made EXCEPT !.pc = "threw", !.error = outcome]
                ELSE GoOn(env, [made EXCEPT !.swallowed = Append(@, "custom")],
                          "custom")
           ELSE [made EXCEPT !.pc = "backoff",
                             !.waits = Append(@, Delay(emb.attempt))]
  /\ UNCHANGED <<convVars, teamVars, env, resolved>>

\* One pass of the retry loop: the request is made; on success the embedding
\* is returned; on failure the error is logged and kept, and either it is
\* thrown (last attempt; getEmbedding catches and logs it) or the backoff
\* timer is set.
CustomAttempt(outcome) ==
  /\ emb.pc = "custom"
  /\ LET made == [emb EXCEPT !.requests = @ + 1, !.log = Append(@, outcome)]
     IN  emb' =
           IF outcome = "ok"
           THEN [made EXCEPT !.pc = "returned", !.result = "custom"]
           ELSE IF emb.attempt = emb.maxRetries
           THEN IF emb.caller = "direct"
                THEN [made EXCEPT !.pc = "threw", !.error = outcome]
                ELSE GoOn(env, [made EXCEPT !.swallowed = Append(@, "custom")],
                          "custom")
           ELSE [made EXCEPT !.pc = "backoff",
                             !.waits = Append(@, Delay(emb.attempt))]
  /\ UNCHANGED <<convVars, teamVars, env, resolved>>

\* The backoff timer fires: attempt += 1 and the loop goes on.
BackoffElapsed ==
  /\ emb.pc = "backoff"
  /\ emb' = [emb EXCEPT !.pc = "custom", !.attempt = @ + 1]
  /\ UNCHANGED <<convVars, teamVars, env, resolved>>

\* embed() with the OpenAI SDK provider, inside try/catch.
SdkEmbed(ok) ==
  /\ emb.pc = "sdk"
  /\ emb' = IF ok
            THEN [emb EXCEPT !.pc = "returned", !.result = "sdk"]
            ELSE GoOn(env, [emb EXCEPT !.swallowed = Append(@, "sdk")], "sdk")
  /\ UNCHANGED <<convVars, teamVars, env, resolved>>

\* embed() with the Ollama provider, inside try/catch.
OllamaEmbed(ok) ==
  /\ emb.pc = "ollama"
  /\ emb' = IF ok
            THEN [emb EXCEPT !.pc = "returned", !.result = "ollama"]
            ELSE GoOn(env, [emb EXCEPT !.swallowed = Append(@, "ollama")],
                      "ollama")
  /\ UNCHANGED <<convVars, teamVars, env, resolved>>

EmbedEnvs ==
  {[NoEnv EXCEPT !.OPENAI_EMBEDDINGS_BASE_URL = bu, !.EMBEDDING_MODEL = m,
                 !.OLLAMA_URL = ou, !.OPENAI_API_KEY = ok] :
     bu \in Configured({SomeUrl}),
     m \in Configured({TextEmbedding3Small, NomicEmbed}),
     ou \in Configured({SomeUrl}), ok \in Configured({SomeKey})}

InitEmbed ==
  /\ store = <<>>
  /\ ConvRest
  /\ TeamRest
  /\ env \in EmbedEnvs
  /\ resolved = NoCall
  /\ emb = NoEmbed

EmbedNext ==
  \/ GetEmbedding
  \/ \E given \in BOOLEAN, option \in 0..MaxRetryOption :
       RequestEmbeddingWithRetries(given, option)
  \/ \E outcome \in Outcomes : CustomAttempt(outcome)
  \/ BackoffElapsed
  \/ \E ok \in BOOLEAN : SdkEmbed(ok)
  \/ \E ok \in BOOLEAN : OllamaEmbed(ok)

SpecEmbed == InitEmbed /\ [][EmbedNext]_vars

\* ------------------------------------------------------------ properties
\* The step in which the watchdog's timeout fires.
TimeoutStep == timerArmed /\ lastEvent' = "timeout"

\* The step in which useChat reports a terminal error to onError.
ErrorStep == status # "error" /\ status' = "error"

\* The provider stream of turn t was opened.
StreamOpened(t) ==
  \/ turn[t].pc \in {"stream", "finish", "done"}
  \/ turn[t].pc = "failed" /\ turn[t].fail = "provider"

\* C1 (as claimed): a watchdog timeout with retryCount below 2 increments the
\* counter, stops the stream and schedules a refresh of the conversation; a
\* timeout with retryCount at 2 reloads the page; counted from a counter of
\* 0, with timeouts only, every stall so far got a recovery, and in no run
\* are more than 2 recoveries made before a reload or a reset.
C1_WatchdogBoundedRecovery ==
  /\ [][TimeoutStep =>
          IF retryCount < 2
          THEN /\ retryCount' = retryCount + 1
               /\ recovSince' = recovSince + 1
               /\ mounted'
               /\ status' = "ready"
               /\ turn'[cur].conn \in {"stopped", "stoppedStreaming"}
               /\ refreshPending' = refreshPending + 1
          ELSE /\ ~mounted'
               /\ retryCount' = 0
               /\ refreshPending' = 0]_vars
  /\ [](recovSince <= 2)
  /\ [](errsSince = 0 => recovSince = stallsSince)

\* C2 (as claimed): an error reported by the stream with retryCount below 2
\* increments the same counter and schedules a refresh; with retryCount at 2
\* it schedules a reload; the recoveries made by timeouts and errors together
\* are the counter's value, which never exceeds 2.
C2_ErrorSharesCounter ==
  /\ [][ErrorStep =>
          IF retryCount < 2
          THEN /\ retryCount' = retryCount + 1
               /\ recovSince' = recovSince + 1
               /\ refreshPending' = refreshPending + 1
               /\ reloadPending' = reloadPending
          ELSE /\ retryCount' = retryCount
               /\ recovSince' = recovSince
               /\ reloadPending']_vars
  /\ [](retryCount = recovSince /\ retryCount <= 2)
  /\ [](recovSince <= stallsSince + errsSince)

\* C3 (as claimed): once a turn has completed normally and the client is back
\* in its rest status, the retry counter is 0.
C3_ResetOnSuccess == lastEvent = "finish" => retryCount = 0

\* C4: the provider stream of a turn is opened only after the turn's user
\* Turn is in the store, and an agent Turn of a turn is in the store only when
\* the stream has reached its terminal state, after the turn's user Turn.
C4_UserTurnBeforeStream ==
  \A t \in TurnIds :
    /\ StreamOpened(t) => RowsOf(store, t, "User") # {}
    /\ \A a \in RowsOf(store, t, "Agent") :
         /\ turn[t].pc = "done"
         /\ \E u \in RowsOf(store, t, "User") : u < a

\* C4 witness: a turn is complete with its agent Turn stored.
C4_Witness ==
  \E t \in TurnIds : turn[t].pc = "done" /\ RowsOf(store, t, "Agent") # {}

\* C5 (as claimed): a completed turn has exactly one agent Turn in the store,
\* however often its completion callback was delivered.
C5_OneAgentTurnPerTurn ==
  \A t \in TurnIds :
    turn[t].pc = "done" => Cardinality(RowsOf(store, t, "Agent")) = 1

\* C6 (as claimed): once the first request of a brand-new conversation is
\* complete, the store holds one user Turn followed by one agent Turn and the
\* queue holds one title job with the stripped text of the message.
C6_FirstMessageEndToEnd ==
  (turn[1].pc = "done" /\ NextTurnId = 2) =>
    /\ Len(store) = 2
    /\ store[1].role = "User" /\ store[1].text = turn[1].req
    /\ store[2].role = "Agent"
    /\ titleJobs = <<stripHtml(turn[1].req)>>

\* C7 (as claimed): once the caller has stopped a turn, the turn's stream makes
\* no further step and issues no further tool invocation, and a turn stopped
\* while its stream was open gets no agent Turn.
C7_StopClosesStream ==
  [][\A t \in TurnIds :
       Stopped(t) =>
         /\ turn'[t].steps = turn[t].steps
         /\ turn'[t].toolCalls = turn[t].toolCalls
         /\ turn[t].conn = "stoppedStreaming"
              => RowsOf(store', t, "Agent") = {}]_vars

\* C8: a turn never completes more than 10 steps; with 10 steps completed the
\* stream is no longer running and neither a step nor a tool invocation
\* follows.
C8_StepBudget ==
  /\ [](\A t \in TurnIds :
          /\ turn[t].steps <= 10
          /\ turn[t].toolCalls <= turn[t].steps
          /\ turn[t].steps = 10 => turn[t].pc # "stream")
  /\ [][\A t \in TurnIds :
          turn[t].steps = 10 =>
            /\ turn'[t].steps = 10
            /\ turn'[t].toolCalls = turn[t].toolCalls]_vars

\* C8 witness: a turn used the whole budget, every step with a tool call and
\* no stop predicate involved.
C8_Witness ==
  \E t \in TurnIds : turn[t].steps = 10 /\ turn[t].toolCalls = 10

\* C9: the tool listing never ends the turn: from the listing step the turn
\* goes on to the history fetch, and a turn whose listing failed has an empty
\* tool set, one warning logged, invokes no tool and gets its user Turn stored
\* before the stream opens.
C9_ListingFailureDegrades ==
  /\ [][\A t \in TurnIds :
          turn[t].pc = "tools" => turn'[t].pc \in {"tools", "fetch"}]_vars
  /\ [](\A t \in TurnIds :
          turn[t].warn > 0 =>
            /\ turn[t].tools = {}
            /\ turn[t].toolCalls = 0
            /\ turn[t].fail # "mcp"
            /\ StreamOpened(t) => RowsOf(store, t, "User") # {})

\* C9 witness: a turn whose listing failed completed with its agent Turn.
C9_Witness ==
  \E t \in TurnIds :
    /\ turn[t].warn = 1
    /\ turn[t].pc = "done"
    /\ RowsOf(store, t, "Agent") # {}

\* C10 (as claimed): a turn that found the gateway unreachable does not end in
\* Error; past the listing it has an empty tool set and one warning logged.
C10_NoConnectivityStillSucceeds ==
  \A t \in TurnIds :
    turn[t].gw = "down" =>
      /\ turn[t].pc # "failed"
      /\ turn[t].pc \notin {"connect", "tools"}
           => turn[t].tools = {} /\ turn[t].warn = 1

\* C10 (amended): a turn that found the gateway unreachable when listing the
\* tools has an empty tool set and exactly one warning logged and does not end
\* in Error on account of the gateway; a turn that found it unreachable when
\* creating the gateway client ends in Error with no warning logged, nothing
\* stored and no stream opened.
C10_ListingUnreachableOneWarning ==
  \A t \in TurnIds :
    turn[t].gw = "down" =>
      IF turn[t].fail = "mcp"
      THEN /\ turn[t].pc = "failed"
           /\ turn[t].warn = 0
           /\ RowsOf(store, t, "User") = {}
           /\ turn[t].steps = 0
      ELSE /\ turn[t].warn = 1
           /\ turn[t].tools = {}
           /\ turn[t].pc \notin {"connect", "tools"}
           /\ turn[t].pc = "failed"
                => turn[t].fail \in {"enqueue", "model", "provider"}

\* C10 witness: a turn whose listing found the gateway unreachable completed.
C10_Witness ==
  \E t \in TurnIds :
    /\ turn[t].gw = "down"
    /\ turn[t].pc = "done"
    /\ turn[t].warn = 1
    /\ turn[t].tools = {}

\* C11: a turn ends in Error on account of the gateway only at the creation
\* of the gateway client, before the stream is opened and before any step of
\* the model; a tool invocation the gateway does not answer while the turn is
\* streaming completes its step, leaves the turn streaming or finishing, and
\* never makes the gateway the cause of an Error.
C11_GatewayFatalOnlyBeforeTokens ==
  /\ [](\A t \in TurnIds :
          /\ turn[t].fail = "mcp" =>
                /\ turn[t].pc = "failed"
                /\ turn[t].steps = 0
                /\ ~turn[t].toolFailed
                /\ RowsOf(store, t, "Agent") = {}
          /\ turn[t].toolFailed => turn[t].fail \in {"none", "provider"})
  /\ [][\A t \in TurnIds :
          (turn[t].pc = "stream" /\ ~turn[t].toolFailed /\ turn'[t].toolFailed)
            => /\ turn'[t].pc \in {"stream", "finish"}
               /\ turn'[t].fail = "none"
               /\ turn'[t].steps = turn[t].steps + 1]_vars

\* C11 witness: a turn whose tool invocation got no answer from the gateway
\* went on generating and completed with its agent Turn stored.
C11_Witness ==
  \E t \in TurnIds :
    /\ turn[t].toolFailed
    /\ turn[t].steps >= 2
    /\ turn[t].pc = "done"
    /\ RowsOf(store, t, "Agent") # {}

\* C12 (as claimed): the enqueue of the title job never ends the turn: from
\* the title step the turn goes on to open its stream, whatever the outcome of
\* the enqueue call, and no turn ends in Error on account of the enqueue.
C12_TitleEnqueueFireAndForget ==
  /\ [][\A t \in TurnIds :
          turn[t].pc = "title" => turn'[t].pc \in {"title", "open"}]_vars
  /\ [](\A t \in TurnIds : turn[t].fail # "enqueue")

\* The turn got its token and went on to the gateway.
PastMint(t) ==
  \/ turn[t].pc \in {"connect", "tools", "fetch", "save", "title", "open",
                     "stream", "finish", "done"}
  \/ turn[t].pc = "failed" /\ turn[t].fail # "auth"

\* C13: a turn first invalidates the token of the name, then mints one; the
\* token it presents to the gateway is the one it minted itself, never one
\* minted by another turn; a turn that gets no plaintext token ends in Error
\* without having contacted the gateway.
C13_NoCredentialReuse ==
  /\ [](\A t \in TurnIds :
          /\ turn[t].held \in {0, t}
          /\ PastMint(t) => turn[t].held = t
          /\ turn[t].gw # "unknown" => turn[t].held = t
          /\ turn[t].fail = "auth" =>
                /\ turn[t].pc = "failed"
                /\ turn[t].held = 0
                /\ turn[t].gw = "unknown"
                /\ RowsOf(store, t, "User") = {})
  /\ [][\A t \in TurnIds :
          /\ (turn[t].pc = "delete" /\ turn'[t].pc # "delete")
                => turn'[t].pc = "mint" /\ activeToken' = 0
          /\ (turn[t].pc = "mint" /\ turn'[t].pc = "connect")
                => activeToken = 0 /\ activeToken' = t]_vars

\* C13 witness: of two overlapping turns one found the other's token in
\* place, got no plaintext and ended in Error, while the other reached the
\* gateway with the token it minted.
C13_Witness ==
  \E t, u \in TurnIds :
    /\ turn[t].fail = "auth"
    /\ turn[u].held = u
    /\ turn[u].gw = "up"

\* The model name a call of getModel works with.
EffectiveModel == OrElse(OrElse(resolved.arg, env.MODEL), DefaultModel)

\* The provider a model name selects, and the credential that provider needs.
SelectedProvider(name) ==
  IF Includes(name, ClaudeMarker) THEN "anthropic"
  ELSE IF Includes(name, GeminiMarker) THEN "google"
  ELSE "openai"

CredentialOf(e, provider) ==
  CASE provider = "anthropic" -> e.ANTHROPIC_API_KEY
    [] provider = "google"    -> e.GOOGLE_GENERATIVE_AI_API_KEY
    [] provider = "openai"    -> e.OPENAI_API_KEY

\* C17: a call of getModel whose model name selects a provider with no
\* credential configured throws and hands no model instance to the caller,
\* whatever the other providers' credentials are.
C17_MissingCredentialFails ==
  resolved.op = "getModel" =>
    LET provider == SelectedProvider(EffectiveModel)
    IN  ~Truthy(CredentialOf(env, provider)) =>
          /\ resolved.threw
          /\ resolved.value = NoBinding
          /\ resolved.error =
               CASE provider = "anthropic" ->
                      "No Anthropic API key found. Set ANTHROPIC_API_KEY"
                 [] provider = "google" ->
                      "No Google API key found. Set GOOGLE_API_KEY"
                 [] provider = "openai" ->
                      "No OpenAI API key found. Set OPENAI_API_KEY"

\* C17 witness: a name with the Google marker was resolved with the Anthropic
\* and OpenAI keys configured and the Google key absent, and the call threw.
C17_Witness ==
  /\ resolved.op = "getModel"
  /\ SelectedProvider(EffectiveModel) = "google"
  /\ Truthy(env.ANTHROPIC_API_KEY) /\ Truthy(env.OPENAI_API_KEY)
  /\ ~Truthy(env.GOOGLE_GENERATIVE_AI_API_KEY)
  /\ resolved.threw

\* The sampling temperature carried by what getModel returned, NaN if it
\* carries none.
TemperatureOf(value) ==
  IF "temperature" \in DOMAIN value THEN value.temperature ELSE NaN

\* C18 (as claimed): what getModel returns carries the sampling temperature:
\* 0.5 for the Anthropic provider, the global default for the others.
C18_BindingCarriesTemperature ==
  (resolved.op = "getModel" /\ ~resolved.threw) =>
    TemperatureOf(resolved.value) =
      IF resolved.value.provider = "anthropic" THEN AnthropicTemperature
      ELSE GlobalTemperature(env)

\* C19 (as claimed): getModelForTask returns, for "low", the table's entry
\* for the base model when the table has one and the base model otherwise,
\* and for "high" the base model.
C19_TierSelection ==
  resolved.op = "getModelForTask" =>
    LET base == OrElse(env.MODEL, DefaultModel)
    IN  resolved.name =
          IF resolved.complexity = "low"
             /\ \E i \in 1..Len(downgrades) : downgrades[i][1] = base
          THEN downgrades[CHOOSE i \in 1..Len(downgrades) :
                            downgrades[i][1] = base][2]
          ELSE base

\* C20 (as claimed): with a local endpoint configured, getModel returns a
\* binding of the local-inference provider.
C20_LocalEndpointWins ==
  (resolved.op = "getModel" /\ Truthy(env.OLLAMA_URL)) =>
    /\ ~resolved.threw
    /\ resolved.value.provider = "ollama"

\* The strategies the configuration makes available, in the order of the
\* contract: custom endpoint, managed SDK, local inference.
AvailableStrategies(e) ==
  (IF Truthy(e.OPENAI_EMBEDDINGS_BASE_URL) THEN <<"custom">> ELSE <<>>)
  \o (IF e.EMBEDDING_MODEL = TextEmbedding3Small THEN <<"sdk">> ELSE <<>>)
  \o (IF Truthy(e.OLLAMA_URL) THEN <<"ollama">> ELSE <<>>)

IsPrefix(a, b) == Len(a) <= Len(b) /\ a = SubSeq(b, 1, Len(a))

\* C14: getEmbedding invokes the available strategies in the fixed order and
\* no other; each failure is caught and the next strategy is invoked; the
\* call returns the vector of the first strategy that succeeds and invokes
\* nothing after it; it throws "All embedding methods failed" exactly when
\* every available strategy was invoked and failed (none available included).
C14_EmbedStrategyOrder ==
  /\ [](emb.caller = "getEmbedding" =>
          /\ IsPrefix(emb.tried, AvailableStrategies(env))
          /\ IsPrefix(emb.swallowed, emb.tried)
          /\ emb.pc = "returned" =>
                /\ emb.tried # <<>>
                /\ emb.result = emb.tried[Len(emb.tried)]
                /\ Len(emb.swallowed) = Len(emb.tried) - 1
          /\ emb.pc \in {"custom", "backoff", "sdk", "ollama"} =>
                /\ emb.tried # <<>>
                /\ Len(emb.swallowed) = Len(emb.tried) - 1
                /\ emb.result = "none"
          /\ emb.pc = "threw" <=>
                /\ emb.tried = AvailableStrategies(env)
                /\ emb.swallowed = emb.tried
          /\ emb.pc = "threw" => emb.error = "all-failed" /\ emb.result = "none"
          /\ emb.pc # "threw" => emb.error = "none")
  /\ [][emb.pc \in {"returned", "threw"} => emb' = emb]_vars

\* C14 witness: the custom endpoint and the SDK failed, the local provider
\* succeeded, and its vector was returned.
C14_Witness ==
  /\ emb.caller = "getEmbedding"
  /\ emb.pc = "returned"
  /\ emb.result = "ollama"
  /\ emb.swallowed = <<"custom", "sdk">>
  /\ emb.requests = 3

\* Attempts of the retry loop that ended in the catch block.
FailedAttempts ==
  {i \in 1..Len(emb.log) : i < Len(emb.log) \/ emb.result # "custom"}

\* C15: the n-th backoff delay of the retry loop, waited between attempt n
\* and attempt n + 1, is 2^n seconds, and a delay is set after every failed
\* attempt but the last one the loop allows.
C15_BackoffDelay ==
  /\ \A n \in 1..Len(emb.waits) : emb.waits[n] = (2 ^ n) * 1000
  /\ Len(emb.waits) =
       IF emb.maxRetries > 0 /\ Cardinality(FailedAttempts) = emb.maxRetries
       THEN emb.maxRetries - 1
       ELSE Cardinality(FailedAttempts)
  /\ emb.pc = "backoff" => Len(emb.waits) = emb.attempt
  /\ emb.pc = "custom" => Len(emb.waits) = emb.attempt - 1

\* C15 witness: with maxRetries 4 all four attempts failed; the delays were
\* 2, 4 and 8 seconds and none followed the fourth attempt.
C15_Witness ==
  /\ emb.maxRetries = 4
  /\ emb.pc = "threw"
  /\ emb.requests = 4
  /\ emb.waits = <<2000, 4000, 8000>>

\* The retry loop's budget, with the given outcomes counting as failure: one
\* request per attempt and never more than maxRetries; an attempt failed
\* exactly when its outcome is one of the failures; the loop stops at the
\* first success; after maxRetries failures the last attempt's error is
\* thrown.
RetryBudget(failures) ==
  /\ emb.requests = Len(emb.log)
  /\ emb.requests <= emb.maxRetries
  /\ \A i \in 1..Len(emb.log) : i \in FailedAttempts <=> emb.log[i] \in failures
  /\ \A i \in 1..Len(emb.log) :
       i \notin FailedAttempts => i = Len(emb.log) /\ emb.result = "custom"
  /\ emb.result = "custom" =>
       Len(emb.log) >= 1 /\ emb.log[Len(emb.log)] = "ok"
  /\ (emb.caller = "direct" /\ emb.pc = "threw" /\ emb.maxRetries >= 1) =>
       /\ emb.requests = emb.maxRetries
       /\ emb.error = emb.log[emb.maxRetries]

\* A request is issued only by the loop, within its budget.
RetryStep ==
  emb'.requests # emb.requests =>
    /\ emb.pc = "custom"
    /\ emb.requests < emb.maxRetries
    /\ emb'.requests = emb.requests + 1

\* C16 (as claimed): the budget holds with an attempt counting as failed
\* exactly when the response is non-2xx or has no data[0].embedding.
C16_RetryBudget ==
  /\ [](RetryBudget({"non2xx", "missing"}))
  /\ [][RetryStep]_vars

\* C16 (amended): the budget holds with an attempt counting as failed exactly
\* when the request is rejected, the response is non-2xx, its body is no
\* JSON, or it has no data[0].embedding.
C16_RetryBudgetAnyFailure ==
  /\ [](RetryBudget({"non2xx", "missing", "network", "badjson"}))
  /\ [][RetryStep]_vars

\* C16 witness: with the default maxRetries three requests were made, the
\* third was rejected, and its error was thrown.
C16_Witness ==
  /\ emb.caller = "direct"
  /\ emb.maxRetries = DefaultMaxRetries
  /\ emb.pc = "threw"
  /\ emb.requests = 3
  /\ emb.log[3] = "network"
  /\ emb.error = "network"

\* The provider a call of getModel turned to: the one whose instance it
\* returned or whose missing key it reported.
AttemptedProvider ==
  IF ~resolved.threw THEN resolved.value.provider
  ELSE CASE resolved.error =
              "No Anthropic API key found. Set ANTHROPIC_API_KEY" -> "anthropic"
         [] resolved.error =
              "No Google API key found. Set GOOGLE_API_KEY" -> "google"
         [] resolved.error =
              "No OpenAI API key found. Set OPENAI_API_KEY" -> "openai"
         [] OTHER -> "none"

\* C21: getModel turns to Anthropic for a name containing "claude" (also when
\* it contains "gemini" too), to Google for a name containing "gemini" and
\* not "claude", and to the OpenAI-compatible provider for a name containing
\* neither, whatever keys are configured; with the key missing it throws for
\* that provider and turns to no other.
C21_ProviderByNamePriority ==
  resolved.op = "getModel" =>
    LET hasClaude == Includes(EffectiveModel, ClaudeMarker)
        hasGemini == Includes(EffectiveModel, GeminiMarker)
    IN  /\ hasClaude => AttemptedProvider = "anthropic"
        /\ (~hasClaude /\ hasGemini) => AttemptedProvider = "google"
        /\ (~hasClaude /\ ~hasGemini) => AttemptedProvider = "openai"
        /\ ~resolved.threw => resolved.value.modelId = EffectiveModel

\* C21 witness: a name with both markers was resolved with only the Google
\* and OpenAI keys configured, and the call threw for Anthropic.
C21_Witness ==
  /\ resolved.op = "getModel"
  /\ Includes(EffectiveModel, ClaudeMarker)
  /\ Includes(EffectiveModel, GeminiMarker)
  /\ ~Truthy(env.ANTHROPIC_API_KEY)
  /\ Truthy(env.GOOGLE_GENERATIVE_AI_API_KEY) /\ Truthy(env.OPENAI_API_KEY)
  /\ AttemptedProvider = "anthropic"
  /\ resolved.threw

\* C22: for a name routed to the OpenAI-compatible provider getModel throws
\* when OPENAI_API_KEY is missing, with or without a base URL, and otherwise
\* returns the chat model bound to OPENAI_BASE_URL when that is set and the
\* default provider's model when it is not; what it does for a name routed to
\* Anthropic or Google is what it does with OPENAI_BASE_URL unset.
C22_OpenAIBaseUrl ==
  resolved.op = "getModel" =>
    IF SelectedProvider(EffectiveModel) = "openai"
    THEN IF ~Truthy(env.OPENAI_API_KEY)
         THEN /\ resolved.threw
              /\ resolved.error = "No OpenAI API key found. Set OPENAI_API_KEY"
         ELSE /\ ~resolved.threw
              /\ resolved.value.provider = "openai"
              /\ resolved.value.modelId = EffectiveModel
              /\ IF Truthy(env.OPENAI_BASE_URL)
                 THEN /\ resolved.value.baseURL = env.OPENAI_BASE_URL
                      /\ resolved.value.api = "chat"
                 ELSE resolved.value.baseURL = Undefined
    ELSE LET r == getModel([env EXCEPT !.OPENAI_BASE_URL = Undefined],
                           resolved.arg)
         IN  /\ resolved.threw = r.threw
             /\ resolved.error = r.error
             /\ resolved.value = r.value
             /\ resolved.value.baseURL = Undefined

\* C22 witness: a name routed to the OpenAI-compatible provider was resolved
\* with the key and a base URL configured.
C22_Witness ==
  /\ resolved.op = "getModel"
  /\ SelectedProvider(EffectiveModel) = "openai"
  /\ Truthy(env.OPENAI_API_KEY)
  /\ env.OPENAI_BASE_URL = SomeUrl
  /\ resolved.value.baseURL = SomeUrl

\* C27: every entry of the downgrade table maps a name to a name that getModel
\* routes to the same provider, so that with any keys configured getModel
\* does for the "low" name what it does for the base name: the same provider's
\* instance or the same provider's missing-key error; and the entry's value,
\* taken as the base model, is returned unchanged for "low".
C27_DowngradeKeepsProvider ==
  /\ \A i \in 1..Len(downgrades) :
       LET high == downgrades[i][1]
           low  == downgrades[i][2]
       IN  /\ SelectedProvider(low) = SelectedProvider(high)
           /\ getModel(env, low).threw = getModel(env, high).threw
           /\ getModel(env, low).error = getModel(env, high).error
           /\ getModel(env, low).value.provider
                = getModel(env, high).value.provider
           /\ getModelForTask([env EXCEPT !.MODEL = low], "low") = low
  /\ (/\ resolved.op = "getModelForTask"
      /\ resolved.complexity = "low"
      /\ OrElse(env.MODEL, DefaultModel) \in OwnKeys(downgrades)) =>
       /\ SelectedProvider(resolved.name)
            = SelectedProvider(OrElse(env.MODEL, DefaultModel))
       /\ getModelForTask([env EXCEPT !.MODEL = resolved.name], "low")
            = resolved.name

\* C27 witness: with only the Anthropic key configured the "low" model was
\* selected for claude-3-opus-20240229 and is claude-3-5-haiku-20241022.
C27_Witness ==
  /\ resolved.op = "getModelForTask"
  /\ resolved.complexity = "low"
  /\ env.MODEL = Claude3Opus
  /\ resolved.name = Claude35Haiku
  /\ Truthy(env.ANTHROPIC_API_KEY)
  /\ ~Truthy(env.OPENAI_API_KEY)

\* ------------------------------- routes/api.v1.teams.$teamId.members: invite
\* TeamMember tables the requests start from: user 1 is the active OWNER of
\* team 1; user 2 was soft-deleted from team 1 and belongs to team 2.
InitTeamMembers ==
  { << [teamId |-> 1, userId |-> 1, role |-> "OWNER",  deleted |-> FALSE],
       [teamId |-> 1, userId |-> 2, role |-> "MEMBER", deleted |-> TRUE],
       [teamId |-> 2, userId |-> 2, role |-> "OWNER",  deleted |-> FALSE] >>,
    << [teamId |-> 1, userId |-> 1, role |-> "OWNER",  deleted |-> FALSE],
       [teamId |-> 1, userId |-> 2, role |-> "OWNER",  deleted |-> TRUE],
       [teamId |-> 2, userId |-> 2, role |-> "MEMBER", deleted |-> FALSE] >> }

\* prisma.teamMember.findUnique({where: {teamId_userId: {teamId, userId}}}):
\* the ids of the rows with that team and user (the unique index allows one).
findUnique(rows, teamId, userId) ==
  {r \in 1..Len(rows) : rows[r].teamId = teamId /\ rows[r].userId = userId}

\* PermissionService.canPerformTeamAction
canPerformTeamAction(rows, userId, teamId, action) ==
  LET membership == {r \in findUnique(rows, teamId, userId) : ~rows[r].deleted}
  IN  IF membership = {} THEN FALSE
      ELSE IF action = "view" THEN TRUE
      ELSE \E r \in membership : rows[r].role = "OWNER"

\* POST /api/v1/teams/:teamId/members {email, role}
InviteRequest(limit, userId, teamId, invitedUser, role) ==
  LET i == Cardinality({j \in 1..MaxInvites : invites[j].pc # "none"}) + 1
  IN  /\ i <= limit
      /\ invites' = [invites EXCEPT ![i] =
                       [NoInvite EXCEPT !.pc = "permission", !.userId = userId,
                                        !.teamId = teamId,
                                        !.invitedUser = invitedUser,
                                        !.role = role]]
      /\ UNCHANGED <<teamMembers, convVars, libVars>>

\* canInvite = await permissionService.canPerformTeamAction(userId, teamId,
\* "invite"); 403 without it.
CanInvite(i) ==
  /\ invites[i].pc = "permission"
  /\ invites' = IF canPerformTeamAction(teamMembers, invites[i].userId,
                                        invites[i].teamId, "invite")
                THEN [invites EXCEPT ![i].pc = "lookup"]
                ELSE [invites EXCEPT ![i].pc = "done", ![i].status = 403]
  /\ UNCHANGED <<teamMembers, convVars, libVars>>

\* prisma.user.findFirst({where: {email}}), 404 without a user; then
\* prisma.teamMember.findUnique, 400 for a member that is not deleted.
FindMember(i) ==
  /\ invites[i].pc = "lookup"
  /\ LET existing == findUnique(teamMembers, invites[i].teamId,
                                invites[i].invitedUser)
     IN  invites' =
           IF invites[i].invitedUser = 0
           THEN [invites EXCEPT ![i].pc = "done", ![i].status = 404]
           ELSE IF \E r \in existing : ~teamMembers[r].deleted
           THEN [invites EXCEPT ![i].pc = "done", ![i].status = 400]
           ELSE [invites EXCEPT ![i].pc = "write",
                                ![i].existingMember =
                                  IF existing = {} THEN 0
                                  ELSE CHOOSE r \in existing : TRUE]
  /\ UNCHANGED <<teamMembers, convVars, libVars>>

\* prisma.teamMember.update of the row found deleted (deleted: null, role), or
\* prisma.teamMember.create; the unique index TeamMember_teamId_userId_key
\* refuses a second row of the team and user, and the catch answers 500.
WriteMember(i) ==
  /\ invites[i].pc = "write"
  /\ IF invites[i].existingMember # 0
     THEN /\ teamMembers' = [teamMembers EXCEPT
                               ![invites[i].existingMember].deleted = FALSE,
                               ![invites[i].existingMember].role = invites[i].role]
          /\ invites' = [invites EXCEPT ![i].pc = "done", ![i].status = 200]
     ELSE IF findUnique(teamMembers, invites[i].teamId,
                        invites[i].invitedUser) # {}
     THEN /\ invites' = [invites EXCEPT ![i].pc = "done", ![i].status = 500]
          /\ UNCHANGED teamMembers
     ELSE /\ teamMembers' = Append(teamMembers,
                                   [teamId |-> invites[i].teamId,
                                    userId |-> invites[i].invitedUser,
                                    role |-> invites[i].role,
                                    deleted |-> FALSE])
          /\ invites' = [invites EXCEPT ![i].pc = "done", ![i].status = 200]
  /\ UNCHANGED <<convVars, libVars>>

\* POST /api/v1/teams: after prisma.team.create the creator is added as the
\* OWNER of the new team by prisma.teamMember.create. The Team table is not
\* kept: a team is its id, and the requests that end before the create (405,
\* 404, 400) leave the TeamMember table as it is.
CreateTeam(limit, userId) ==
  LET teamId == 1 + Cardinality({teamMembers[r].teamId :
                                   r \in 1..Len(teamMembers)})
  IN  /\ teamId <= limit
      /\ teamMembers' = Append(teamMembers,
                               [teamId |-> teamId, userId |-> userId,
                                role |-> "OWNER", deleted |-> FALSE])
      /\ UNCHANGED <<invites, convVars, libVars>>

InitTeams ==
  /\ store = <<>>
  /\ ConvRest
  /\ env = NoEnv
  /\ resolved = NoCall
  /\ emb = NoEmbed
  /\ teamMembers \in InitTeamMembers
  /\ invites = [i \in 1..MaxInvites |-> NoInvite]

\* Users 1 and 2 create teams and send invite requests for the teams, by the
\* e-mail of user 2, of user 3 or of nobody; the handlers of overlapping
\* requests interleave at their awaits.
TeamsNext ==
  \/ \E userId \in {1, 2} : CreateTeam(MaxTeams, userId)
  \/ \E userId \in {1, 2}, teamId \in 1..MaxTeams, invitedUser \in {0, 2, 3},
        role \in {"OWNER", "MEMBER"} :
       InviteRequest(MaxInvites, userId, teamId, invitedUser, role)
  \/ \E i \in 1..MaxInvites : CanInvite(i)
  \/ \E i \in 1..MaxInvites : FindMember(i)
  \/ \E i \in 1..MaxInvites : WriteMember(i)

SpecTeams == InitTeams /\ [][TeamsNext]_vars

-----------------------------------------------------------------------------
\* The messages of a turn.

\* C23 (as claimed): no step of the turn removes an element of a messages
\* array it was given: after the completion callback the array it received
\* (the request's messages followed by the assistant's message) still holds
\* every one of them.
C23_MessagesAppendOnly ==
  \A t \in TurnIds :
    turn[t].fin > 0 => turn[t].cbLeft = FinishMessages(t)

-----------------------------------------------------------------------------
\* The watchdog's timer.

\* The timer the watchdog effect sets for status st.
TimerFor(st) == <<[status |-> st, left |-> StatusTimeout]>>

\* C24: at most one watchdog timer is pending, none outside the monitored
\* statuses, and the pending one was set for the current status and has run
\* no longer than the status has stayed unchanged; every change of the status
\* cancels the timer set before (what is pending afterwards is the timer just
\* set for the new status, with its full 30 s left, or nothing); a timer
\* fires only in the monitored status it was set for, with none of its 30 s
\* left and the status unchanged for 30 s.
C24_WatchdogTimer ==
  /\ [](/\ Len(timers) <= 1
        /\ ~Monitored(status) => timers = <<>>
        /\ \A i \in 1..Len(timers) :
             /\ timers[i].status = status
             /\ StatusTimeout - timers[i].left <= unchangedFor
        /\ timerArmed <=> timers # <<>>)
  /\ [][status' # status =>
          timers' = IF Monitored(status') THEN TimerFor(status') ELSE <<>>]_vars
  /\ [][WatchdogTimeout =>
          /\ Monitored(status)
          /\ timers = <<[status |-> status, left |-> 0]>>
          /\ unchangedFor = StatusTimeout]_vars

\* C24 witness: after a timeout that fired at the end of its 30 s was
\* recovered from, a later request's status went from submitted to streaming,
\* and the one pending timer is the one set for streaming, all its 30 s left.
C24_Witness ==
  /\ mounted
  /\ retryCount = 1
  /\ stallsSince = 1
  /\ lastEvent = "chunk"
  /\ status = "streaming"
  /\ timers = TimerFor("streaming")
  /\ unchangedFor = 0

-----------------------------------------------------------------------------
\* Overlapping turns of one user.

\* C25 (as claimed): while a turn is listing the gateway's tools or is in its
\* model steps, where they are invoked, the token its gateway client holds is
\* still the valid one: no other turn's delete-then-mint step has invalidated
\* it.
C25_NoStaleToken ==
  \A t \in TurnIds :
    turn[t].pc \in {"tools", "stream"} => activeToken = turn[t].held

\* C26: a turn that failed at minting its token or at creating its gateway
\* client has appended no Turn, fetched no history and opened no stream, the
\* step at which it failed left the store and the title queue as they were,
\* and every title job in the queue belongs to a turn that saved its user
\* message.
C26_SetupFailureLeavesStore ==
  /\ [](\A t \in TurnIds :
          turn[t].fail \in {"auth", "mcp"} =>
            /\ turn[t].pc = "failed"
            /\ RowsOf(store, t, "User") = {}
            /\ RowsOf(store, t, "Agent") = {}
            /\ turn[t].hist = <<>>
            /\ turn[t].steps = 0
            /\ ~StreamOpened(t))
  /\ [](Len(titleJobs) <=
          Cardinality({t \in TurnIds : RowsOf(store, t, "User") # {}}))
  /\ [][\A t \in TurnIds :
          turn[t].fail = "none" /\ turn'[t].fail \in {"auth", "mcp"} =>
            store' = store /\ titleJobs' = titleJobs]_vars

\* C26 witness: of two overlapping requests one failed at minting its token
\* or at creating its gateway client after the other had saved its user
\* message and enqueued its title job.
C26_Witness ==
  \E t, u \in TurnIds :
    /\ turn[t].fail \in {"auth", "mcp"}
    /\ RowsOf(store, t, "User") = {}
    /\ RowsOf(store, u, "User") # {}
    /\ titleJobs # <<>>

-----------------------------------------------------------------------------
\* Team invitations.

\* C28 (as claimed): an invite leaves the record of an active member as it
\* is: no step of an invite request changes a TeamMember row that is not
\* soft-deleted.
C28_ActiveMemberUnchanged ==
  [][\A r \in 1..Len(teamMembers) :
       ~teamMembers[r].deleted => teamMembers'[r] = teamMembers[r]]_vars

====
